---- MODULE Spec2Model ----
(***************************************************************************)
(* Credit-Aggregator: the bracket rate evaluator (server.py), the loader   *)
(* of banks.json (multi_day.py, split_maximizer.py) and the single-day     *)
(* allocation model that PuLP/CBC solves (multi_day.py, split_maximizer.py)*)
(*                                                                         *)
(* Money is an integer number of units.  The MILP has integer data, so     *)
(* for every choice of the binaries its LP is a box cut by one equality    *)
(* with integer bounds: its vertices are integral and the optimum over the *)
(* integer grid is the optimum over the reals.  Python floats are modelled *)
(* as exact rationals [num, den] in lowest terms.  prob.solve() is an      *)
(* exact solver: it answers Infeasible when no assignment satisfies the    *)
(* constraints and otherwise returns any one optimal assignment.           *)
(***************************************************************************)
EXTENDS Integers, Sequences, FiniteSets, TLC

VARIABLES
    prog,            \* which entry point runs: "server", "multi_day", "split_maximizer", ...
    pc,              \* position of that program
    raw,             \* the content of banks.json: bank key -> list of ranges
    total,           \* the deposit given on the command line / in the request
    exclude_banks,   \* multi_day: the keys load_banks is told to leave out
    banks,           \* what load_banks returned (multi_day, split_maximizer)
    status,          \* pulp.LpStatus[prob.status] of the last solve, "" before
    daily_interest,  \* solve_single_day's first result (a rational)
    allocations,     \* solve_single_day's third result: bank -> record
    printed,         \* what split_maximizer.maximize_interest printed
    eval_bank,       \* server: the bank whose rate was evaluated
    eval_rate,       \* server: calculate_effective_rate_helper's result
    days,            \* run_multi_day_opt: the number of days asked for
    day,             \* run_multi_day_opt: the loop variable, 0 before the loop
    current_deposit, \* run_multi_day_opt: the deposit the next day starts with
    results,         \* run_multi_day_opt: the list of day records
    solves,          \* how many times run_multi_day_opt has called solve_single_day
    split_dict,      \* the content of split_config.json / the split tables of app.py
    request,         \* the JSON body of the request, or the arguments of the call
    response,        \* what the handler or the call returned
    evaluations,     \* the (bank, amount) pairs the rate evaluator was called with
    names,           \* banks.json: bank key -> the bank's display name
    workers          \* the requests and runs in flight side by side: id -> its locals

driverVars == <<days, day, current_deposit, results, solves>>
serverVars == <<split_dict, request, response, evaluations, names, workers>>

vars == <<prog, pc, raw, total, exclude_banks, banks, status, daily_interest, allocations,
          printed, eval_bank, eval_rate, driverVars, serverVars>>

-----------------------------------------------------------------------------
(* Bounds of the model *)

MaxTotal == 8

(* Program constants *)

Unbounded == 999999999
DaysPerYear == 365
Percent == 100

NoIdx == 0      \* Python's None for range_idx (indices are 1-based here)

-----------------------------------------------------------------------------
(* Exact rationals for Python's float arithmetic *)

RECURSIVE GCD(_, _)
GCD(a, b) == IF b = 0 THEN a ELSE GCD(b, a % b)

Abs(x) == IF x < 0 THEN -x ELSE x

Rat(n, d) ==
    LET g == GCD(Abs(n), Abs(d))
        s == IF d < 0 THEN -1 ELSE 1
    IN  [num |-> s * (n \div g), den |-> s * (d \div g)]

Zero == [num |-> 0, den |-> 1]

RatMul(x, y) ==
    LET a == Rat(x.num, y.den)
        b == Rat(y.num, x.den)
    IN  Rat(a.num * b.num, a.den * b.den)

RatDivInt(x, k) == RatMul(x, Rat(1, k))

RatLeq(x, y) == x.num * y.den <= y.num * x.den

-----------------------------------------------------------------------------
(* server.py: the rate evaluator *)

Contains(rng, deposit) == rng.min <= deposit /\ deposit <= rng.max

\* Faulty variant: the bracket's rate is returned as it stands, min_balance ignored.
RateOfRange_BareRate(rng, deposit) ==
    IF deposit - rng.min_balance > 0 THEN Rat(rng.rate, 1) ELSE Zero

\* The body of the for loop for one range_item that matched (lines 40-44).
RateOfRange(rng, deposit) ==
    LET interest_eligible == deposit - rng.min_balance
    IN  IF interest_eligible > 0
        THEN \* annual_interest = interest_eligible * (rate / 100);
             \* return (annual_interest / deposit) * 100
             RatMul(RatDivInt(RatMul(Rat(interest_eligible, 1), Rat(rng.rate, Percent)),
                              deposit),
                    Rat(Percent, 1))
        ELSE Zero

\* Faulty variant: a matching bracket that earns nothing lets the scan go on.
RECURSIVE RateFrom_FallThrough(_, _, _)
RateFrom_FallThrough(deposit, ranges, k) ==
    IF k > Len(ranges) THEN Zero
    ELSE IF Contains(ranges[k], deposit) /\ deposit - ranges[k].min_balance > 0
         THEN RateOfRange(ranges[k], deposit)
    ELSE RateFrom_FallThrough(deposit, ranges, k + 1)

RECURSIVE RateFrom(_, _, _)
RateFrom(deposit, ranges, k) ==
    IF k > Len(ranges) THEN Zero
    ELSE IF Contains(ranges[k], deposit) THEN RateOfRange(ranges[k], deposit)
    ELSE RateFrom(deposit, ranges, k + 1)

calculate_effective_rate_helper(deposit, ranges) == RateFrom(deposit, ranges, 1)

calculate_one_day_return(deposit, effective_rate) ==
    RatDivInt(RatMul(Rat(deposit, 1), RatDivInt(effective_rate, Percent)), DaysPerYear)

-----------------------------------------------------------------------------
(* multi_day.py, split_maximizer.py: load_banks *)

Min(a, b) == IF a <= b THEN a ELSE b

EmptyMap == [k \in {} |-> 0]

\* Faulty variant: the pre-filter looks at min_balance only.
RangeIsFeasible_FloorOnly(rng, total_deposit) == rng.min_balance <= total_deposit

\* The list comprehension of lines 37-40.
RangeIsFeasible(rng, total_deposit) ==
    rng.min_balance <= total_deposit /\ rng.min <= total_deposit

feasible_ranges(ranges, total_deposit) ==
    SelectSeq(ranges, LAMBDA rng : RangeIsFeasible(rng, total_deposit))

\* Faulty variant: the check of min_balance against min is missing.
RangeIsInvalid_Never(rng) == FALSE

\* The check of lines 55-60 on one remaining range.
RangeIsInvalid(rng) == rng.min_balance > rng.min

\* load_banks: [exit |-> TRUE] stands for sys.exit(1); otherwise the dictionary
\* returned.  exclude is the set of keys deleted in lines 29-31.
load_banks(file, total_deposit, exclude) ==
    LET kept == DOMAIN file \ exclude
        filtered == [b \in kept |-> feasible_ranges(file[b], total_deposit)]
        bad(b) == \/ filtered[b] = << >>
                  \/ \E idx \in 1..Len(filtered[b]) : RangeIsInvalid(filtered[b][idx])
    IN  IF \E b \in kept : bad(b)
        THEN [exit |-> TRUE, banks |-> EmptyMap]
        ELSE [exit |-> FALSE, banks |-> filtered]

-----------------------------------------------------------------------------
(* multi_day.py: build_single_day_model.  An assignment gives every         *)
(* (bank_key, idx) its three variables: r (range_vars), d (deposit_vars),   *)
(* i (interest_vars).                                                       *)

BigM(total_deposit) == total_deposit * 2

\* upBound of deposit_var; max_limit of Constraint 3.
max_limit(rng, total_deposit) == Min(rng.max, total_deposit)

\* Faulty variant: the minimum of the range is not enforced.
Min_Deposit_Dropped(rng, v) == v.d >= 0

Min_Deposit(rng, v) == v.d >= rng.min * v.r

\* Faulty variant: the cap does not depend on the range being selected.
Max_Deposit_Unlinked(rng, v, total_deposit) == v.d <= max_limit(rng, total_deposit)

Max_Deposit(rng, v, total_deposit) == v.d <= max_limit(rng, total_deposit) * v.r
Min_Balance(rng, v) == v.d >= rng.min_balance * v.r
Interest_Upper1(rng, v, M) == v.i <= (v.d - rng.min_balance) + M * (1 - v.r)
Interest_Lower(rng, v, M) == v.i >= (v.d - rng.min_balance) - M * (1 - v.r)
Interest_Upper2(v, M) == v.i <= M * v.r
Interest_NonNeg(v) == v.i >= 0

RangeConstraints(rng, v, total_deposit, M) ==
    /\ Min_Deposit(rng, v)
    /\ Max_Deposit(rng, v, total_deposit)
    /\ Min_Balance(rng, v)
    /\ Interest_Upper1(rng, v, M)
    /\ Interest_Lower(rng, v, M)
    /\ Interest_Upper2(v, M)
    /\ Interest_NonNeg(v)

\* The variables of one range within their declared bounds (lines 99-120)
\* that satisfy the range's own constraints (lines 145-185).
RangeVars(rng, total_deposit, M) ==
    { v \in [r : {0, 1}, d : 0..max_limit(rng, total_deposit), i : 0..M] :
        RangeConstraints(rng, v, total_deposit, M) }

RECURSIVE RangeSeqs(_, _, _, _)
RangeSeqs(ranges, k, total_deposit, M) ==
    IF k = 0 THEN { << >> }
    ELSE { Append(s, v) : s \in RangeSeqs(ranges, k - 1, total_deposit, M),
                          v \in RangeVars(ranges[k], total_deposit, M) }

RECURSIVE SumR(_, _)
SumR(vs, k) == IF k = 0 THEN 0 ELSE vs[k].r + SumR(vs, k - 1)

RECURSIVE SumD(_, _)
SumD(vs, k) == IF k = 0 THEN 0 ELSE vs[k].d + SumD(vs, k - 1)

\* Constraint 2 (lines 138-142).
ExactlyOneRange(vs) == SumR(vs, Len(vs)) = 1

BankVars(ranges, total_deposit, M) ==
    { vs \in RangeSeqs(ranges, Len(ranges), total_deposit, M) : ExactlyOneRange(vs) }

RECURSIVE Assignments(_, _, _, _)
Assignments(keys, bks, total_deposit, M) ==
    IF keys = {} THEN { EmptyMap }
    ELSE LET b == CHOOSE x \in keys : TRUE
         IN  { (b :> vs) @@ rest :
                 vs \in BankVars(bks[b], total_deposit, M),
                 rest \in Assignments(keys \ {b}, bks, total_deposit, M) }

RECURSIVE SumDeposits(_, _)
SumDeposits(sol, keys) ==
    IF keys = {} THEN 0
    ELSE LET b == CHOOSE x \in keys : TRUE
         IN  SumD(sol[b], Len(sol[b])) + SumDeposits(sol, keys \ {b})

\* Constraint 1 (lines 132-135).
Total_Deposit(sol, total_deposit) == SumDeposits(sol, DOMAIN sol) = total_deposit

\* Faulty variant: the interest variables are summed without their daily rate.
RECURSIVE ObjSeq_NoRate(_, _, _)
ObjSeq_NoRate(ranges, vs, k) ==
    IF k = 0 THEN 0 ELSE vs[k].i + ObjSeq_NoRate(ranges, vs, k - 1)

RECURSIVE ObjSeq(_, _, _)
ObjSeq(ranges, vs, k) ==
    IF k = 0 THEN 0 ELSE vs[k].i * ranges[k].rate + ObjSeq(ranges, vs, k - 1)

RECURSIVE ObjBanks(_, _, _)
ObjBanks(bks, sol, keys) ==
    IF keys = {} THEN 0
    ELSE LET b == CHOOSE x \in keys : TRUE
         IN  ObjSeq(bks[b], sol[b], Len(sol[b])) + ObjBanks(bks, sol, keys \ {b})

\* The objective (lines 123-129) times Percent * DaysPerYear.
Objective(bks, sol) == ObjBanks(bks, sol, DOMAIN bks)

FeasibleSet(total_deposit, bks, M) ==
    { sol \in Assignments(DOMAIN bks, bks, total_deposit, M) :
        Total_Deposit(sol, total_deposit) }

\* Faulty variant: LpMinimize in place of LpMaximize.
SetMax_Minimize(S) == CHOOSE x \in S : \A y \in S : x <= y

\* The optimal objective value of a maximization (LpMaximize, line 85).
SetMax(S) == CHOOSE x \in S : \A y \in S : y <= x

\* prob.solve(solver): the status and the optimal assignments it may return.
LpSolve(total_deposit, bks, M) ==
    LET feas == FeasibleSet(total_deposit, bks, M)
    IN  IF feas = {}
        THEN [status |-> "Infeasible", best |-> 0, sols |-> {}]
        ELSE LET best == SetMax({ Objective(bks, sol) : sol \in feas })
             IN  [status |-> "Optimal", best |-> best,
                  sols |-> { sol \in feas : Objective(bks, sol) = best }]

-----------------------------------------------------------------------------
(* multi_day.py: solve_single_day (lines 206-249) *)

\* The scan of lines 233-238: the first idx whose range variable exceeds 0.5.
RECURSIVE ChosenFrom(_, _)
ChosenFrom(vs, idx) ==
    IF idx > Len(vs) THEN NoIdx
    ELSE IF 2 * vs[idx].r > 1 THEN idx
    ELSE ChosenFrom(vs, idx + 1)

\* One entry of allocations (lines 230-243).
AllocationOf(vs) ==
    LET chosen_idx == ChosenFrom(vs, 1)
    IN  IF chosen_idx = NoIdx
        THEN [range_idx |-> NoIdx, deposit |-> 0, interest |-> 0]
        ELSE [range_idx |-> chosen_idx, deposit |-> vs[chosen_idx].d,
              interest |-> vs[chosen_idx].i]

\* pulp.value(prob.objective): the objective in money per day.
ObjectiveValue(bks, sol) == Rat(Objective(bks, sol), Percent * DaysPerYear)

\* Faulty variant: a solve that is not optimal is reported as an optimal one
\* that earns nothing.
solve_single_day_Untyped(total_deposit, bks) ==
    LET res == LpSolve(total_deposit, bks, BigM(total_deposit))
    IN  IF res.status = "Optimal"
        THEN { [daily_interest |-> ObjectiveValue(bks, sol),
                status |-> res.status,
                allocations |-> [b \in DOMAIN bks |-> AllocationOf(sol[b])]] :
               sol \in res.sols }
        ELSE { [daily_interest |-> Zero, status |-> "Optimal",
                allocations |-> EmptyMap] }

\* The results solve_single_day may return: (daily_interest, status, allocations).
solve_single_day(total_deposit, bks) ==
    LET res == LpSolve(total_deposit, bks, BigM(total_deposit))
    IN  IF res.status = "Optimal"
        THEN { [daily_interest |-> ObjectiveValue(bks, sol),
                status |-> res.status,
                allocations |-> [b \in DOMAIN bks |-> AllocationOf(sol[b])]] :
               sol \in res.sols }
        ELSE { [daily_interest |-> Zero, status |-> res.status,
                allocations |-> EmptyMap] }

-----------------------------------------------------------------------------
(* split_maximizer.py: calculate_min_sum, maximize_interest, print_solution *)

RECURSIVE MinBalances(_, _)
MinBalances(ranges, k) ==
    IF k = 0 THEN {} ELSE {ranges[k].min_balance} \cup MinBalances(ranges, k - 1)

SetMin(S) == CHOOSE x \in S : \A y \in S : x <= y

RECURSIVE calculate_min_sum_over(_, _)
calculate_min_sum_over(bks, keys) ==
    IF keys = {} THEN 0
    ELSE LET b == CHOOSE x \in keys : TRUE
         IN  SetMin(MinBalances(bks[b], Len(bks[b])))
               + calculate_min_sum_over(bks, keys \ {b})

calculate_min_sum(bks) == calculate_min_sum_over(bks, DOMAIN bks)

\* Big-M of split_maximizer (line 184).
BigM_split(total_deposit) == total_deposit

\* print_solution's scan (lines 135-139): the first idx whose range variable is 1.
RECURSIVE PrintedFrom(_, _)
PrintedFrom(vs, idx) ==
    IF idx > Len(vs) THEN NoIdx
    ELSE IF vs[idx].r = 1 THEN idx
    ELSE PrintedFrom(vs, idx + 1)

PrintedOf(vs) ==
    LET chosen_range == PrintedFrom(vs, 1)
    IN  IF chosen_range = NoIdx
        THEN [range_idx |-> NoIdx, deposit |-> 0, interest |-> 0]
        ELSE [range_idx |-> chosen_range, deposit |-> vs[chosen_range].d,
              interest |-> vs[chosen_range].i]

\* What maximize_interest may print: the pre-check's message and exit, the
\* "No optimal solution found." branch, or the solution.
maximize_interest(total_deposit, bks) ==
    IF calculate_min_sum(bks) > total_deposit
    THEN { [kind |-> "infeasible_exit", solution |-> EmptyMap] }
    ELSE LET res == LpSolve(total_deposit, bks, BigM_split(total_deposit))
         IN  IF res.status = "Optimal"
             THEN { [kind |-> "solution",
                     solution |-> [b \in DOMAIN bks |-> PrintedOf(sol[b])]] :
                    sol \in res.sols }
             ELSE { [kind |-> "no_optimal", solution |-> EmptyMap] }

-----------------------------------------------------------------------------
(* Inputs: the schedules banks.json may hold, in small numbers *)

BankKeys == {"a", "b"}

Bounds == { <<0, 2>>, <<0, 5>>, <<0, Unbounded>>, <<2, 5>>, <<3, Unbounded>> }
Floors == {0, 2}
Rates == {10, 20}

Ranges ==
    { [min |-> bd[1], max |-> bd[2], min_balance |-> mb, rate |-> rt] :
        bd \in Bounds, mb \in Floors, rt \in Rates }

\* Schedules of one bracket, and of two brackets in ascending order of min.
Schedules1 == { <<r1>> : r1 \in Ranges }
Schedules2 == { s \in { <<r1, r2>> : r1 \in Ranges, r2 \in Ranges } : s[1].min < s[2].min }

\* banks.json: bank "a" alone with one or two brackets, or with a second bank
\* "b" of one bracket.
Files ==
    { ("a" :> sa) : sa \in Schedules1 \cup Schedules2 }
      \cup { ("a" :> sa) @@ ("b" :> sb) : sa \in Schedules1 \cup Schedules2,
                                          sb \in Schedules1 }

\* The schedule of the evaluator's documented example: the first brackets of
\* enpara_ranges (app.py), the third one left open.
ExampleSchedule ==
    << [min |-> 0, max |-> 100000, min_balance |-> 0, rate |-> 32],
       [min |-> 100001, max |-> 500000, min_balance |-> 0, rate |-> 35],
       [min |-> 500001, max |-> Unbounded, min_balance |-> 0, rate |-> 38] >>

ExampleAmount == 250000

Programs == {"server", "multi_day", "split_maximizer"}

-----------------------------------------------------------------------------
(* The state machine *)

NoRate == [num |-> -1, den |-> 1]

\* The driver and the server before they have run.
DriverIdle ==
    /\ days = 0
    /\ day = 0
    /\ current_deposit = Zero
    /\ results = << >>
    /\ solves = 0

NoRequest == [kind |-> "none"]

ServerIdle ==
    /\ split_dict = EmptyMap
    /\ request = NoRequest
    /\ response = NoRequest
    /\ evaluations = {}
    /\ names = EmptyMap
    /\ workers = EmptyMap

Init ==
    /\ prog \in Programs
    /\ \/ /\ raw \in Files
          /\ total \in 1..MaxTotal
       \/ /\ prog = "server"
          /\ raw = ("a" :> ExampleSchedule)
          /\ total = ExampleAmount
    /\ exclude_banks \in IF prog = "multi_day" THEN SUBSET (DOMAIN raw) ELSE { {} }
    /\ pc = "start"
    /\ banks = EmptyMap
    /\ status = ""
    /\ daily_interest = Zero
    /\ allocations = EmptyMap
    /\ printed = [kind |-> "", solution |-> EmptyMap]
    /\ eval_bank = ""
    /\ eval_rate = NoRate
    /\ DriverIdle
    /\ ServerIdle

\* server.py: one call calculate_effective_rate_helper(deposit, bank_info['ranges'])
\* (lines 145-148, line 96).
EffectiveRate ==
    /\ prog = "server"
    /\ pc = "start"
    /\ \E bank_key \in DOMAIN raw :
          /\ eval_bank' = bank_key
          /\ eval_rate' = calculate_effective_rate_helper(total, raw[bank_key])
    /\ pc' = "rated"
    /\ UNCHANGED <<prog, raw, total, exclude_banks, banks, status, daily_interest, allocations, printed,
                   driverVars, serverVars>>

\* multi_day.py: banks = load_banks('banks.json', total_deposit, exclude_banks).
LoadBanks ==
    /\ prog = "multi_day"
    /\ pc = "start"
    /\ LET res == load_banks(raw, total, exclude_banks)
       IN  /\ banks' = res.banks
           /\ pc' = IF res.exit THEN "exit" ELSE "loaded"
    /\ UNCHANGED <<prog, raw, total, exclude_banks, status, daily_interest, allocations, printed,
                   eval_bank, eval_rate,
                   driverVars, serverVars>>

\* multi_day.py: solve_single_day(total_deposit, banks).
SolveSingleDay ==
    /\ prog = "multi_day"
    /\ pc = "loaded"
    /\ \E res \in solve_single_day(total, banks) :
          /\ status' = res.status
          /\ daily_interest' = res.daily_interest
          /\ allocations' = res.allocations
    /\ pc' = "solved"
    /\ UNCHANGED <<prog, raw, total, exclude_banks, banks, printed, eval_bank, eval_rate,
                   driverVars, serverVars>>

\* split_maximizer.py main(): load_banks("banks.json", total_deposit).
LoadBanksSplit ==
    /\ prog = "split_maximizer"
    /\ pc = "start"
    /\ LET res == load_banks(raw, total, {})
       IN  /\ banks' = res.banks
           /\ pc' = IF res.exit THEN "exit" ELSE "loaded"
    /\ UNCHANGED <<prog, raw, total, exclude_banks, status, daily_interest, allocations, printed,
                   eval_bank, eval_rate,
                   driverVars, serverVars>>

\* split_maximizer.py main(): maximize_interest(total_deposit, banks).
MaximizeInterest ==
    /\ prog = "split_maximizer"
    /\ pc = "loaded"
    /\ \E out \in maximize_interest(total, banks) :
          /\ printed' = out
          /\ pc' = IF out.kind = "infeasible_exit" THEN "exit" ELSE "solved"
    /\ UNCHANGED <<prog, raw, total, exclude_banks, banks, status, daily_interest, allocations,
                   eval_bank, eval_rate,
                   driverVars, serverVars>>

Next ==
    \/ EffectiveRate
    \/ LoadBanks
    \/ SolveSingleDay
    \/ LoadBanksSplit
    \/ MaximizeInterest

Spec == Init /\ [][Next]_vars

-----------------------------------------------------------------------------
(* The same programs over files that hold brackets with min_balance above   *)
(* min and above small totals.                                              *)

LoaderBounds == { <<0, 2>>, <<2, 5>>, <<0, Unbounded>> }
LoaderFloors == {0, 3}

LoaderRanges ==
    { [min |-> bd[1], max |-> bd[2], min_balance |-> mb, rate |-> 10] :
        bd \in LoaderBounds, mb \in LoaderFloors }

LoaderSchedules ==
    { <<r1>> : r1 \in LoaderRanges }
      \cup { s \in { <<r1, r2>> : r1 \in LoaderRanges, r2 \in LoaderRanges } :
                s[1].min < s[2].min }

LoaderFiles ==
    { ("a" :> sa) : sa \in LoaderSchedules }
      \cup { ("a" :> sa) @@ ("b" :> <<rb>>) : sa \in LoaderSchedules, rb \in LoaderRanges }

InitLoader ==
    /\ prog \in Programs
    /\ raw \in LoaderFiles
    /\ total \in 1..MaxTotal
    /\ exclude_banks \in IF prog = "multi_day" THEN SUBSET (DOMAIN raw) ELSE { {} }
    /\ pc = "start"
    /\ banks = EmptyMap
    /\ status = ""
    /\ daily_interest = Zero
    /\ allocations = EmptyMap
    /\ printed = [kind |-> "", solution |-> EmptyMap]
    /\ eval_bank = ""
    /\ eval_rate = NoRate
    /\ DriverIdle
    /\ ServerIdle

SpecLoader == InitLoader /\ [][Next]_vars

-----------------------------------------------------------------------------
(* multi_day.py: run_multi_day_opt (lines 252-297) and                      *)
(* print_multi_day_opt_results (lines 300-320).  The rates of the files are *)
(* whole multiples of 36500, so that the daily interest of a whole deposit  *)
(* is whole and every day's deposit stays on the grid the solver is         *)
(* modelled on.                                                             *)

MaxInitial == 3
MaxDays == 3

RatAdd(x, y) ==
    LET g == GCD(x.den, y.den)
    IN  Rat(x.num * (y.den \div g) + y.num * (x.den \div g), x.den * (y.den \div g))

\* The float current_deposit as the solver's total (its denominator is 1).
Whole(x) == x.num

\* Faulty variant: the interest is not added to the deposit.
new_deposit_NoCompound(deposit, interest) == deposit

\* Faulty variant: the interest is taken from the deposit.
new_deposit_Charged(deposit, interest) == RatAdd(deposit, Rat(-interest.num, interest.den))

\* new_deposit = current_deposit + daily_interest (line 280).
new_deposit(deposit, interest) == RatAdd(deposit, interest)

\* Faulty variant: a failed day does not stop the loop.
NotOptimal_Ignored(st) == FALSE

\* The test of line 276.
NotOptimal(st) == st # "Optimal"

\* day_record (lines 281-287).
day_record(d, deposit, res) ==
    [day |-> d,
     start_deposit |-> deposit,
     interest |-> res.daily_interest,
     end_deposit |-> new_deposit(deposit, res.daily_interest),
     splits |-> res.allocations]

DriverBounds == { <<0, Unbounded>>, <<0, 5>>, <<2, Unbounded>> }
DriverRates == {36500, 73000}

DriverRanges ==
    { [min |-> bd[1], max |-> bd[2], min_balance |-> mb, rate |-> rt] :
        bd \in DriverBounds, mb \in Floors, rt \in DriverRates }

DriverSchedules ==
    { <<r1>> : r1 \in DriverRanges }
      \cup { s \in { <<r1, r2>> : r1 \in DriverRanges, r2 \in DriverRanges } :
                s[1].min < s[2].min }

DriverSecondBank ==
    { << [min |-> 0, max |-> Unbounded, min_balance |-> 0, rate |-> 36500] >>,
      << [min |-> 0, max |-> 5, min_balance |-> 0, rate |-> 73000] >>,
      << [min |-> 2, max |-> Unbounded, min_balance |-> 2, rate |-> 73000] >> }

DriverFiles ==
    { ("a" :> sa) : sa \in DriverSchedules }
      \cup { ("a" :> sa) @@ ("b" :> sb) : sa \in DriverSchedules, sb \in DriverSecondBank }

InitDriver ==
    /\ prog = "multi_day"
    /\ raw \in DriverFiles
    /\ total \in 1..MaxInitial
    /\ days \in 0..MaxDays
    /\ exclude_banks \in SUBSET (DOMAIN raw)
    /\ pc = "start"
    /\ banks = EmptyMap
    /\ status = ""
    /\ daily_interest = Zero
    /\ allocations = EmptyMap
    /\ printed = [kind |-> "", solution |-> EmptyMap]
    /\ eval_bank = ""
    /\ eval_rate = NoRate
    /\ day = 0
    /\ current_deposit = Zero
    /\ results = << >>
    /\ solves = 0
    /\ ServerIdle

\* run_multi_day_opt is entered with what load_banks returned (lines 266-267).
EnterMultiDayOpt ==
    /\ prog = "multi_day"
    /\ pc = "loaded"
    /\ results' = << >>
    /\ current_deposit' = Rat(total, 1)
    /\ pc' = "loop"
    /\ UNCHANGED <<prog, raw, total, exclude_banks, banks, status, daily_interest,
                   allocations, printed, eval_bank, eval_rate, days, day, solves,
                   serverVars>>

\* One iteration of the for loop (lines 269-295): a solve, then the break
\* and the return of line 297, or the day's record.
RunDay ==
    /\ prog = "multi_day"
    /\ pc = "loop"
    /\ day < days
    /\ day' = day + 1
    /\ solves' = solves + 1
    /\ \E res \in solve_single_day(Whole(current_deposit), banks) :
          /\ status' = res.status
          /\ daily_interest' = res.daily_interest
          /\ allocations' = res.allocations
          /\ IF NotOptimal(res.status)
             THEN /\ pc' = "returned"
                  /\ UNCHANGED <<results, current_deposit>>
             ELSE /\ results' = Append(results, day_record(day', current_deposit, res))
                  /\ current_deposit' = new_deposit(current_deposit, res.daily_interest)
                  /\ pc' = "loop"
    /\ UNCHANGED <<prog, raw, total, exclude_banks, banks, printed, eval_bank, eval_rate,
                   days, serverVars>>

\* range(1, days + 1) is exhausted: return results (line 297).
LoopEnd ==
    /\ prog = "multi_day"
    /\ pc = "loop"
    /\ day >= days
    /\ pc' = "returned"
    /\ UNCHANGED <<prog, raw, total, exclude_banks, banks, status, daily_interest,
                   allocations, printed, eval_bank, eval_rate, driverVars, serverVars>>

\* print_multi_day_opt_results(results): the message of lines 302-304 for an
\* empty list, the days and the final deposit otherwise.
PrintResults ==
    /\ prog = "multi_day"
    /\ pc = "returned"
    /\ printed' = IF results = << >>
                  THEN [kind |-> "no_feasible_or_stopped_early", solution |-> EmptyMap]
                  ELSE [kind |-> "days", solution |-> EmptyMap,
                        final_day |-> results[Len(results)].day,
                        final_deposit |-> results[Len(results)].end_deposit]
    /\ pc' = "printed"
    /\ UNCHANGED <<prog, raw, total, exclude_banks, banks, status, daily_interest,
                   allocations, eval_bank, eval_rate, driverVars, serverVars>>

NextDriver ==
    \/ LoadBanks
    \/ EnterMultiDayOpt
    \/ RunDay
    \/ LoopEnd
    \/ PrintResults

SpecDriver == InitDriver /\ [][NextDriver]_vars

-----------------------------------------------------------------------------
(* main.py: maximize_interest, one deposit variable per bank *)

\* max_limit after lines 77-78.
main_max_limit(rng, total_deposit) ==
    IF rng.max > total_deposit THEN total_deposit ELSE rng.max

\* Constraint 3 for one range of a bank (lines 81-114): d is the bank's
\* deposit variable, v.r and v.i the range's binary and interest variables,
\* M the constant of line 22.
main_RangeConstraints(rng, d, v, total_deposit, M) ==
    /\ d >= rng.min * v.r
    /\ d <= main_max_limit(rng, total_deposit) * v.r
    /\ d >= rng.min_balance * v.r
    /\ v.i <= d - rng.min_balance
    /\ v.i <= (main_max_limit(rng, total_deposit) - rng.min_balance) * v.r
    /\ v.i >= (d - rng.min_balance) - M * (1 - v.r)

\* The range and interest variables of the ranges 1..k of a bank (lines
\* 33-39) that satisfy Constraint 3 for the deposit d.
RECURSIVE main_RangeSeqs(_, _, _, _, _)
main_RangeSeqs(ranges, k, d, total_deposit, M) ==
    IF k = 0 THEN { << >> }
    ELSE { Append(sq, v) :
             sq \in main_RangeSeqs(ranges, k - 1, d, total_deposit, M),
             v \in { w \in [r : {0, 1}, i : 0..total_deposit] :
                       main_RangeConstraints(ranges[k], d, w, total_deposit, M) } }

\* The variables of one bank (lines 27-39) under Constraints 2 and 3.
main_BankVars(ranges, total_deposit, M) ==
    { bv \in UNION { { [d |-> d, vs |-> vs] :
                         vs \in main_RangeSeqs(ranges, Len(ranges), d, total_deposit, M) } :
                     d \in 0..total_deposit } :
        SumR(bv.vs, Len(bv.vs)) = 1 }

RECURSIVE main_Assignments(_, _, _, _)
main_Assignments(keys, bks, total_deposit, M) ==
    IF keys = {} THEN { EmptyMap }
    ELSE LET b == CHOOSE x \in keys : TRUE
         IN  { (b :> bv) @@ rest :
                 bv \in main_BankVars(bks[b], total_deposit, M),
                 rest \in main_Assignments(keys \ {b}, bks, total_deposit, M) }

RECURSIVE main_SumDeposits(_, _)
main_SumDeposits(sol, keys) ==
    IF keys = {} THEN 0
    ELSE LET b == CHOOSE x \in keys : TRUE
         IN  sol[b].d + main_SumDeposits(sol, keys \ {b})

\* The objective (lines 42-52) times Percent * DaysPerYear.
RECURSIVE main_Objective(_, _, _)
main_Objective(bks, sol, keys) ==
    IF keys = {} THEN 0
    ELSE LET b == CHOOSE x \in keys : TRUE
         IN  ObjSeq(bks[b], sol[b].vs, Len(sol[b].vs)) + main_Objective(bks, sol, keys \ {b})

\* prob.solve (line 121) on the model of lines 13-114.
main_LpSolve(total_deposit, bks) ==
    LET feas == { sol \in main_Assignments(DOMAIN bks, bks, total_deposit, total_deposit) :
                    main_SumDeposits(sol, DOMAIN bks) = total_deposit }
    IN  IF feas = {}
        THEN [status |-> "Infeasible", best |-> 0, sols |-> {}]
        ELSE LET best == SetMax({ main_Objective(bks, sol, DOMAIN bks) : sol \in feas })
             IN  [status |-> "Optimal", best |-> best,
                  sols |-> { sol \in feas : main_Objective(bks, sol, DOMAIN bks) = best }]

\* What lines 129-149 print of one bank: its deposit and the first range
\* whose binary variable is 1.
main_PrintedOf(bv) ==
    [deposit |-> bv.d, range_idx |-> ChosenFrom(bv.vs, 1)]

\* banks.json as main.py's load_banks returns it (lines 6-8) and the total of
\* the command line.
InitMain ==
    /\ prog = "main"
    /\ raw \in Files
    /\ total \in 1..MaxTotal
    /\ exclude_banks = {}
    /\ pc = "start"
    /\ banks = EmptyMap
    /\ status = ""
    /\ daily_interest = Zero
    /\ allocations = EmptyMap
    /\ printed = [kind |-> "", solution |-> EmptyMap]
    /\ eval_bank = ""
    /\ eval_rate = NoRate
    /\ DriverIdle
    /\ ServerIdle

\* main.py: banks = load_banks() (line 169).
MainLoadBanks ==
    /\ prog = "main"
    /\ pc = "start"
    /\ banks' = raw
    /\ pc' = "loaded"
    /\ UNCHANGED <<prog, raw, total, exclude_banks, status, daily_interest, allocations,
                   printed, eval_bank, eval_rate, driverVars, serverVars>>

\* main.py: maximize_interest(total_deposit, banks) (line 170).
MainMaximizeInterest ==
    /\ prog = "main"
    /\ pc = "loaded"
    /\ LET res == main_LpSolve(total, banks)
       IN  /\ status' = res.status
           /\ daily_interest' = Rat(res.best, Percent * DaysPerYear)
           /\ IF res.status # "Optimal"
              THEN printed' = [kind |-> "no_optimal_solution", solution |-> EmptyMap]
              ELSE \E sol \in res.sols :
                      printed' = [kind |-> "results",
                                  solution |-> [b \in DOMAIN banks |-> main_PrintedOf(sol[b])]]
    /\ pc' = "solved"
    /\ UNCHANGED <<prog, raw, total, exclude_banks, banks, allocations, eval_bank, eval_rate,
                   driverVars, serverVars>>

NextMain == MainLoadBanks \/ MainMaximizeInterest

SpecMain == InitMain /\ [][NextMain]_vars

-----------------------------------------------------------------------------
(* run_multi_day_opt called with a banks dictionary of the caller's own      *)

\* Brackets no load_banks has validated: min_balance may exceed min, and a
\* rate may be zero.
DirectFloors == {0, 1, 3}
DirectRates == {0, 36500}

DirectRanges ==
    { [min |-> bd[1], max |-> bd[2], min_balance |-> mb, rate |-> rt] :
        bd \in DriverBounds, mb \in DirectFloors, rt \in DirectRates }

DirectSchedules ==
    { <<r1>> : r1 \in DirectRanges }
      \cup { sc \in { <<r1, r2>> : r1 \in DirectRanges, r2 \in DirectRanges } :
                sc[1].min < sc[2].min }

DirectSecondBank ==
    { << [min |-> 0, max |-> Unbounded, min_balance |-> 0, rate |-> 36500] >>,
      << [min |-> 0, max |-> 5, min_balance |-> 3, rate |-> 0] >> }

DirectBanks ==
    { ("a" :> sa) : sa \in DirectSchedules }
      \cup { ("a" :> sa) @@ ("b" :> sb) : sa \in DirectSchedules, sb \in DirectSecondBank }

InitDirect ==
    /\ prog = "multi_day"
    /\ raw \in DirectBanks
    /\ banks = raw
    /\ total \in 1..MaxInitial
    /\ days \in 0..MaxDays
    /\ exclude_banks = {}
    /\ pc = "loaded"
    /\ status = ""
    /\ daily_interest = Zero
    /\ allocations = EmptyMap
    /\ printed = [kind |-> "", solution |-> EmptyMap]
    /\ eval_bank = ""
    /\ eval_rate = NoRate
    /\ day = 0
    /\ current_deposit = Zero
    /\ results = << >>
    /\ solves = 0
    /\ ServerIdle

NextDirect ==
    \/ EnterMultiDayOpt
    \/ RunDay
    \/ LoopEnd
    \/ PrintResults

SpecDirect == InitDirect /\ [][NextDirect]_vars

-----------------------------------------------------------------------------
(* server.py: check_split_strategy, calculate_effective_rate_after_split,   *)
(* compute_daily_balances_helper and the handler of POST /calculate-best    *)

\* Python's round(x, 2) on an exact number: the nearest hundredth, a tie going
\* to the even one.
Round2(x) ==
    LET n == x.num * 100
        q == n \div x.den
        r == n % x.den
        up == \/ 2 * r > x.den
              \/ 2 * r = x.den /\ q % 2 = 1
    IN  Rat(IF up THEN q + 1 ELSE q, 100)

NoSplit == [needed |-> FALSE, info |-> EmptyMap]

\* Faulty variant: the alternative bank is given the table's upper limit.
split_info_UpperLimit(deposit, main_bank, split_data) ==
    [needed |-> TRUE,
     info |-> [recommended_main_bank_deposit |-> split_data.max_limit,
               best_bank |-> main_bank,
               alternative_bank |-> split_data.alternative_bank,
               recommended_alternative_deposit |-> split_data.split_upper_limit]]

\* The value returned in lines 275-282.
split_info(deposit, main_bank, split_data) ==
    [needed |-> TRUE,
     info |-> [recommended_main_bank_deposit |-> split_data.max_limit,
               best_bank |-> main_bank,
               alternative_bank |-> split_data.alternative_bank,
               recommended_alternative_deposit |-> deposit - split_data.max_limit]]

\* The loop of lines 256-282 from entry k on.
RECURSIVE SplitFrom(_, _, _, _, _)
SplitFrom(deposit, main_bank, bks, splits, k) ==
    IF k > Len(splits) THEN NoSplit
    ELSE IF main_bank \notin DOMAIN bks
         THEN SplitFrom(deposit, main_bank, bks, splits, k + 1)
    ELSE IF ~\E j \in 1..Len(bks[main_bank]) : Contains(bks[main_bank][j], deposit)
         THEN SplitFrom(deposit, main_bank, bks, splits, k + 1)
    ELSE IF deposit <= splits[k].max_limit + splits[k].split_upper_limit
         THEN split_info(deposit, main_bank, splits[k])
    ELSE SplitFrom(deposit, main_bank, bks, splits, k + 1)

\* Faulty variant: no split is ever recommended.
check_split_strategy_Never(deposit, main_bank, bks, split_table) == NoSplit

check_split_strategy(deposit, main_bank, bks, split_table) ==
    IF main_bank \notin DOMAIN split_table THEN NoSplit
    ELSE SplitFrom(deposit, main_bank, bks, split_table[main_bank], 1)

\* The amount of the alternative bank after lines 216-218.
AlternativeDeposit(deposit, info) ==
    IF /\ info.recommended_main_bank_deposit + info.recommended_alternative_deposit > deposit
       /\ info.recommended_alternative_deposit < 0
    THEN 0
    ELSE info.recommended_alternative_deposit

\* The calls of the rate evaluator in lines 230-231, as (bank, amount) pairs.
SplitEvaluations(deposit, best_bank, info, bks) ==
    IF best_bank \notin DOMAIN bks \/ info.alternative_bank \notin DOMAIN bks THEN {}
    ELSE { <<best_bank, info.recommended_main_bank_deposit>>,
           <<info.alternative_bank, AlternativeDeposit(deposit, info)>> }

calculate_effective_rate_after_split(deposit, best_bank, info, bks) ==
    LET recommended_main_bank_deposit == info.recommended_main_bank_deposit
        alternative_bank == info.alternative_bank
        alternative_bank_deposit == AlternativeDeposit(deposit, info)
    IN  IF best_bank \notin DOMAIN bks \/ alternative_bank \notin DOMAIN bks
        THEN [effective_rate_after_split |-> Zero, one_day_return_after_split |-> Zero]
        ELSE LET best_rate ==
                     calculate_effective_rate_helper(recommended_main_bank_deposit,
                                                     bks[best_bank])
                 alternative_rate ==
                     calculate_effective_rate_helper(alternative_bank_deposit,
                                                     bks[alternative_bank])
                 best_bank_return ==
                     calculate_one_day_return(recommended_main_bank_deposit, best_rate)
                 alternative_bank_return ==
                     calculate_one_day_return(alternative_bank_deposit, alternative_rate)
                 total_return == RatAdd(best_bank_return, alternative_bank_return)
                 effective_rate_after_split ==
                     RatMul(RatDivInt(RatMul(total_return, Rat(DaysPerYear, 1)), deposit),
                            Rat(Percent, 1))
             IN  [effective_rate_after_split |-> Round2(effective_rate_after_split),
                  one_day_return_after_split |-> Round2(total_return)]

\* compute_daily_balances_helper: balances of day 0..days.
RECURSIVE BalancesFrom(_, _, _)
BalancesFrom(balance, daily_rate, n) ==
    IF n = 0 THEN << >>
    ELSE LET next == RatAdd(balance, RatMul(balance, daily_rate))
         IN  <<next>> \o BalancesFrom(next, daily_rate, n - 1)

\* Faulty variant: the balance of day 0 is left out.
compute_daily_balances_helper_NoDayZero(initial_deposit, best_rate, n) ==
    LET daily_rate == RatDivInt(RatDivInt(best_rate, Percent), DaysPerYear)
    IN  BalancesFrom(Rat(initial_deposit, 1), daily_rate, n)

compute_daily_balances_helper(initial_deposit, best_rate, n) ==
    LET daily_rate == RatDivInt(RatDivInt(best_rate, Percent), DaysPerYear)
    IN  << Rat(initial_deposit, 1) >> \o BalancesFrom(Rat(initial_deposit, 1), daily_rate, n)

\* Faulty variant: a negative deposit passes the validation.
InvalidDeposit_ZeroOnly(deposit) == ~deposit.isnum \/ deposit.val = 0

\* The test of line 127 on the request's deposit.
InvalidDeposit(deposit) == ~deposit.isnum \/ deposit.val <= 0

\* The test of line 131 on the request's banks.
InvalidBanksList(selected_banks) == ~selected_banks.islist \/ ~selected_banks.allstr

\* Faulty variant: of several banks with the highest rate the last one wins.
RECURSIVE BestFrom_LastWins(_, _, _, _)
BestFrom_LastWins(selected, rates, k, best) ==
    IF k > Len(selected) THEN best
    ELSE BestFrom_LastWins(selected, rates, k + 1,
                           IF RatLeq(rates[best], rates[selected[k]]) THEN selected[k]
                           ELSE best)

\* max(rates, key=rates.get): the first key, in the order of insertion, whose
\* rate no other key exceeds (lines 143-154).
RECURSIVE BestFrom(_, _, _, _)
BestFrom(selected, rates, k, best) ==
    IF k > Len(selected) THEN best
    ELSE BestFrom(selected, rates, k + 1,
                  IF RatLeq(rates[selected[k]], rates[best]) THEN best ELSE selected[k])

BadRequest(message) == [code |-> 400, error |-> message]

\* The handler of POST /calculate-best (lines 115-181): the response, and the
\* (bank, amount) pairs the rate evaluator was called with on the way.
calculate_best(req, bks, split_table) ==
    LET deposit == req.deposit.val
        selected_banks == req.banks.items
        invalid_banks == SelectSeq(selected_banks, LAMBDA bank : bank \notin DOMAIN bks)
    IN  IF InvalidDeposit(req.deposit)
        THEN [response |-> BadRequest("Invalid deposit amount."), evaluations |-> {}]
        ELSE IF InvalidBanksList(req.banks)
        THEN [response |-> BadRequest("Invalid banks list."), evaluations |-> {}]
        ELSE IF selected_banks = << >>
        THEN [response |-> BadRequest("No banks selected."), evaluations |-> {}]
        ELSE IF invalid_banks # << >>
        THEN [response |-> BadRequest("Invalid bank names") @@ [names |-> invalid_banks],
              evaluations |-> {}]
        ELSE
        LET keys == { selected_banks[k] : k \in 1..Len(selected_banks) }
            rates == [bank_key \in keys |->
                        calculate_effective_rate_helper(deposit, bks[bank_key])]
            best_bank == BestFrom(selected_banks, rates, 1, selected_banks[1])
            best_rate == rates[best_bank]
            split == check_split_strategy(deposit, best_bank, bks, split_table)
            val == calculate_effective_rate_after_split(deposit, best_bank, split.info, bks)
            first == [code |-> 200,
                      best_bank |-> best_bank,
                      best_rate |-> Round2(best_rate),
                      one_day_return |-> Round2(calculate_one_day_return(deposit, best_rate)),
                      daily_balances |->
                          IF req.days.isint /\ req.days.val > 0
                          THEN compute_daily_balances_helper(deposit, best_rate, req.days.val)
                          ELSE << >>]
        IN  [response |->
                 IF split.needed
                 THEN first @@
                      [split_strategy |-> split.info,
                       effective_rate_after_split |-> val.effective_rate_after_split,
                       one_day_return_after_split |-> val.one_day_return_after_split]
                 ELSE first,
             evaluations |->
                 { <<bank_key, deposit>> : bank_key \in keys }
                   \cup IF split.needed
                        THEN SplitEvaluations(deposit, best_bank, split.info, bks)
                        ELSE {}]

-----------------------------------------------------------------------------
(* app.py: the schedules and split tables written in the module, the rate   *)
(* evaluator over tuples, check_split_strategy,                             *)
(* calculate_effective_rate_after_split and the handler of                  *)
(* POST /calculate-best                                                      *)

\* A rate written as a decimal literal, in tenths of a percent, in lowest terms.
Tenths(n) ==
    IF n % 10 = 0 THEN [num |-> n \div 10, den |-> 1]
    ELSE IF n % 5 = 0 THEN [num |-> n \div 5, den |-> 2]
    ELSE IF n % 2 = 0 THEN [num |-> n \div 2, den |-> 5]
    ELSE [num |-> n, den |-> 10]

getir_ranges ==
    << <<0, 2500, 2500, Tenths(0)>>,
       <<2500, 25000, 2500, Tenths(475)>>,
       <<25001, 50000, 5000, Tenths(475)>>,
       <<50001, 100000, 7500, Tenths(475)>>,
       <<100001, 500000, 20000, Tenths(475)>>,
       <<500001, 1000000, 40000, Tenths(475)>>,
       <<1000001, 2000000, 75000, Tenths(475)>>,
       <<2000001, 2100000, 100000, Tenths(475)>>,
       <<2100001, 5100000, 100000, Tenths(300)>>,
       <<5100001, Unbounded, 100000, Tenths(300)>> >>

enpara_ranges ==
    << <<0, 100000, Tenths(320)>>,
       <<100001, 500000, Tenths(350)>>,
       <<500001, 1000000, Tenths(380)>>,
       <<1000001, Unbounded, Tenths(410)>> >>

odeabank_hosgeldin ==
    << <<0, 7500, 7500, Tenths(0)>>,
       <<7500, 50000, 7500, Tenths(510)>>,
       <<50001, 100000, 10000, Tenths(510)>>,
       <<100001, 250000, 20000, Tenths(510)>>,
       <<250001, 500000, 40000, Tenths(510)>>,
       <<500001, 750000, 75000, Tenths(510)>>,
       <<750001, 1000000, 125000, Tenths(510)>>,
       <<1000001, 2000000, 200000, Tenths(510)>>,
       <<2000001, 5000000, 300000, Tenths(510)>>,
       <<5000001, 10000000, 500000, Tenths(135)>> >>

odeabank_hosgeldin_splits ==
    << <<50000, "enpara", 7426>>,
       <<100000, "enpara", 26651>>,
       <<250000, "odeabank_devam", 73294>>,
       <<500000, "getir", 237529>>,
       <<750000, "odeabank_devam", 210794>>,
       <<1000000, "getir", 548958>> >>

getir_splits ==
    << <<25000, "enpara", 7426>>,
       <<50000, "enpara", 7426>>,
       <<100000, "odeabank_hosgeldin", 120743>>,
       <<500000, "odeabank_hosgeldin", 310386>>,
       <<1000000, "odeabank_hosgeldin", 616815>> >>

odeabank_devam ==
    << <<0, 7500, 7500, Tenths(430)>>,
       <<7500, 50000, 7500, Tenths(430)>>,
       <<50001, 100000, 10000, Tenths(430)>>,
       <<100001, 250000, 20000, Tenths(430)>>,
       <<250001, 500000, 40000, Tenths(410)>>,
       <<500501, 750000, 75000, Tenths(400)>>,
       <<750001, 1000000, 125000, Tenths(400)>>,
       <<1000001, 2000000, 200000, Tenths(400)>>,
       <<2000001, 5000000, 300000, Tenths(350)>>,
       <<5000001, 10000000, 500000, Tenths(130)>> >>

bank_ranges ==
    [bank \in {"enpara", "getir", "odeabank_hosgeldin", "odeabank_devam"} |->
        CASE bank = "enpara" -> enpara_ranges
          [] bank = "getir" -> getir_ranges
          [] bank = "odeabank_hosgeldin" -> odeabank_hosgeldin
          [] bank = "odeabank_devam" -> odeabank_devam]

\* The dictionary check_split_strategy builds in lines 279-283.
split_configurations ==
    [bank \in {"odeabank_hosgeldin", "getir"} |->
        IF bank = "getir" THEN getir_splits ELSE odeabank_hosgeldin_splits]

\* The dictionary check_split_strategy builds in lines 295-299.
best_bank_ranges ==
    [bank \in {"odeabank_hosgeldin", "getir"} |->
        IF bank = "getir" THEN getir_ranges ELSE odeabank_hosgeldin]

\* app.py's calculate_effective_rate_helper: four-field tuples
\* (min_limit, max_limit, alt_limit, rate).
RECURSIVE app_RateFrom(_, _, _)
app_RateFrom(deposit, ranges, k) ==
    IF k > Len(ranges) THEN Zero
    ELSE IF ranges[k][1] <= deposit /\ deposit <= ranges[k][2]
         THEN LET interest_eligible == deposit - ranges[k][3]
              IN  IF interest_eligible > 0
                  THEN RatMul(RatDivInt(RatMul(Rat(interest_eligible, 1),
                                               RatDivInt(ranges[k][4], Percent)),
                                        deposit),
                              Rat(Percent, 1))
                  ELSE Zero
    ELSE app_RateFrom(deposit, ranges, k + 1)

app_calculate_effective_rate_helper(deposit, ranges) == app_RateFrom(deposit, ranges, 1)

\* The loop over enpara_ranges (lines 231-234, 190-193, 201-204): the flat rate
\* of the first three-field tuple that holds the amount.
RECURSIVE FlatRateFrom(_, _)
FlatRateFrom(deposit, k) ==
    IF k > Len(enpara_ranges) THEN Zero
    ELSE IF enpara_ranges[k][1] <= deposit /\ deposit <= enpara_ranges[k][2]
         THEN enpara_ranges[k][3]
    ELSE FlatRateFrom(deposit, k + 1)

enpara_rate(deposit) == FlatRateFrom(deposit, 1)

\* The range of the best bank that holds the deposit (lines 301-305), 0 if none.
RECURSIVE CurrentRangeFrom(_, _, _)
CurrentRangeFrom(deposit, ranges, k) ==
    IF k > Len(ranges) THEN NoIdx
    ELSE IF ranges[k][1] <= deposit /\ deposit <= ranges[k][2] THEN k
    ELSE CurrentRangeFrom(deposit, ranges, k + 1)

\* The loop of lines 291-323 from entry k on.
RECURSIVE app_SplitFrom(_, _, _, _)
app_SplitFrom(deposit, best_bank, splits, k) ==
    IF k > Len(splits) THEN NoSplit
    ELSE LET split_amount == splits[k][3]
             alternative_bank == splits[k][2]
             ranges == IF best_bank \in DOMAIN best_bank_ranges
                       THEN best_bank_ranges[best_bank] ELSE << >>
             current == CurrentRangeFrom(deposit, ranges, 1)
         IN  IF current = NoIdx THEN app_SplitFrom(deposit, best_bank, splits, k + 1)
             ELSE LET min_limit_current == ranges[current][1]
                      recommended_best_deposit == min_limit_current - 1
                  IN  IF deposit > min_limit_current - 1 + split_amount
                      THEN app_SplitFrom(deposit, best_bank, splits, k + 1)
                      ELSE [needed |-> TRUE,
                            info |-> [recommended_best_deposit |-> recommended_best_deposit,
                                      best_bank |-> best_bank,
                                      alternative_bank |-> alternative_bank,
                                      recommended_alternative_deposit |->
                                          deposit - recommended_best_deposit]]

app_check_split_strategy(deposit, best_bank) ==
    IF best_bank \notin DOMAIN split_configurations THEN NoSplit
    ELSE app_SplitFrom(deposit, best_bank, split_configurations[best_bank], 1)

\* The rate lines 184-194 take for the best bank's part.
app_best_rate(best_bank, best_deposit) ==
    IF Len(bank_ranges[best_bank][1]) = 4
    THEN app_calculate_effective_rate_helper(best_deposit, bank_ranges[best_bank])
    ELSE enpara_rate(best_deposit)

\* The rate lines 195-205 take for the alternative bank's part.
app_alternative_rate(best_bank, best_deposit, alternative_bank) ==
    IF alternative_bank \notin DOMAIN bank_ranges THEN Zero
    ELSE IF Len(bank_ranges[alternative_bank][1]) = 4
         THEN app_calculate_effective_rate_helper(best_deposit, bank_ranges[best_bank])
    ELSE enpara_rate(best_deposit)

\* The (bank, amount) pairs whose rate lines 184-205 evaluate.
app_SplitEvaluations(best_bank, info) ==
    { <<best_bank, info.recommended_best_deposit>> }
      \cup IF info.alternative_bank \notin DOMAIN bank_ranges THEN {}
           ELSE IF Len(bank_ranges[info.alternative_bank][1]) = 4
                THEN { <<best_bank, info.recommended_best_deposit>> }
           ELSE { <<"enpara", info.recommended_best_deposit>> }

app_calculate_effective_rate_after_split(deposit, best_bank, info) ==
    LET best_deposit == info.recommended_best_deposit
        alternative_deposit == info.recommended_alternative_deposit
        alternative_bank == info.alternative_bank
        best_bank_return ==
            RatDivInt(RatMul(Rat(best_deposit, 1),
                             RatDivInt(app_best_rate(best_bank, best_deposit), Percent)),
                      DaysPerYear)
        alternative_bank_return ==
            IF alternative_bank \in DOMAIN bank_ranges
            THEN RatDivInt(RatMul(Rat(alternative_deposit, 1),
                                  RatDivInt(app_alternative_rate(best_bank, best_deposit,
                                                                 alternative_bank),
                                            Percent)),
                           DaysPerYear)
            ELSE Zero
        total_one_day_return_after_split == RatAdd(best_bank_return, alternative_bank_return)
        effective_rate_after_split ==
            RatMul(RatDivInt(RatMul(total_one_day_return_after_split, Rat(DaysPerYear, 1)),
                             deposit),
                   Rat(Percent, 1))
    IN  [effective_rate_after_split |-> Round2(effective_rate_after_split),
         one_day_return_after_split |-> Round2(total_one_day_return_after_split)]

\* The keys of the dictionary rates in the order lines 237-242 insert them.
app_rate_keys == <<"getir", "odeabank_hosgeldin", "odeabank_devam", "enpara">>

\* The handler of POST /calculate-best (lines 220-270).
app_calculate_best(req) ==
    LET deposit == req.deposit.val
        rates == [bank \in {"getir", "odeabank_hosgeldin", "odeabank_devam", "enpara"} |->
                    IF bank = "enpara" THEN enpara_rate(deposit)
                    ELSE app_calculate_effective_rate_helper(deposit, bank_ranges[bank])]
        best_bank == BestFrom(app_rate_keys, rates, 1, app_rate_keys[1])
        best_rate == rates[best_bank]
        split == app_check_split_strategy(deposit, best_bank)
        val == app_calculate_effective_rate_after_split(deposit, best_bank, split.info)
        first == [code |-> 200,
                  best_bank |-> best_bank,
                  best_rate |-> Round2(best_rate),
                  one_day_return |-> Round2(calculate_one_day_return(deposit, best_rate))]
    IN  [response |->
             IF split.needed
             THEN first @@
                  [split_strategy |-> split.info,
                   effective_rate_after_split |-> val.effective_rate_after_split,
                   one_day_return_after_split |-> Round2(val.one_day_return_after_split)]
             ELSE first,
         evaluations |->
             { <<app_rate_keys[k], deposit>> : k \in 1..Len(app_rate_keys) }
               \cup IF split.needed THEN app_SplitEvaluations(best_bank, split.info) ELSE {}]

-----------------------------------------------------------------------------
(* The servers: one request to POST /calculate-best of server.py or app.py  *)

MaxDeposit == 7

\* banks.json of the server: bank "a" and bank "b".
ServerSchedulesA ==
    { << [min |-> 0, max |-> 4, min_balance |-> 0, rate |-> 20],
         [min |-> 5, max |-> Unbounded, min_balance |-> 2, rate |-> 20] >>,
      << [min |-> 0, max |-> Unbounded, min_balance |-> 0, rate |-> 20] >>,
      << [min |-> 0, max |-> Unbounded, min_balance |-> 0, rate |-> 3650] >> }

ServerSchedulesB ==
    { << [min |-> 0, max |-> Unbounded, min_balance |-> 0, rate |-> 10] >>,
      << [min |-> 0, max |-> Unbounded, min_balance |-> 0, rate |-> 20] >>,
      << [min |-> 0, max |-> 3, min_balance |-> 0, rate |-> 30],
         [min |-> 4, max |-> Unbounded, min_balance |-> 0, rate |-> 10] >> }

ServerFiles == { ("a" :> sa) @@ ("b" :> sb) : sa \in ServerSchedulesA, sb \in ServerSchedulesB }

\* split_config.json: no table, or a table for bank "a" of one entry or of two
\* entries in ascending order of max_limit; "z" is a bank banks.json lacks.
SplitEntries ==
    { [max_limit |-> ml, alternative_bank |-> alt, split_upper_limit |-> ul] :
        ml \in {2, 4}, alt \in {"b", "z"}, ul \in {1, 3} }

SplitLists ==
    { <<e>> : e \in SplitEntries }
      \cup { l \in { <<e1, e2>> : e1 \in SplitEntries, e2 \in SplitEntries } :
               /\ l[1].max_limit < l[2].max_limit
               /\ l[1].alternative_bank = "b"
               /\ l[2].alternative_bank = "b" }

SplitTables == { EmptyMap } \cup { ("a" :> l) : l \in SplitLists }

\* The field 'name' of the entries of banks.json: a display name of its own,
\* or the key once more.
DisplayNames == { ("a" :> "Bank A") @@ ("b" :> "Bank B"), ("a" :> "a") @@ ("b" :> "b") }

\* The order of the keys in banks.json.
KeyOrder == <<"a", "b">>

\* The field deposit of the body: a number, or something else.
RequestDeposits ==
    { [isnum |-> TRUE, val |-> v] : v \in -1..MaxDeposit } \cup { [isnum |-> FALSE, val |-> 0] }

\* The field banks of the body: not a list; a list with an item that is not a
\* string; a list of strings. items holds the items as text.
RequestBanks ==
    { [islist |-> FALSE, allstr |-> FALSE, items |-> << >>] }
      \cup { [islist |-> TRUE, allstr |-> FALSE, items |-> it] : it \in { <<"7">>, <<"a", "7">> } }
      \cup { [islist |-> TRUE, allstr |-> TRUE, items |-> it] :
               it \in { << >>, <<"a">>, <<"b">>, <<"a", "b">>, <<"b", "a">>, <<"z">>,
                        <<"a", "z">> } }

\* The field days of the body: an int, or something else.
RequestDays ==
    { [isint |-> TRUE, val |-> v] : v \in 0..2 } \cup { [isint |-> FALSE, val |-> 0] }

Requests ==
    { [deposit |-> d, banks |-> b, days |-> n] :
        d \in RequestDeposits, b \in RequestBanks, n \in RequestDays }

\* The deposits sent to app.py, which reads no other field.
AppDeposits == {1, 3000, 8000, 20000, 30000, 40000, 50000, 57000, 60000, 130000, 300000}

AppRequests ==
    { [deposit |-> [isnum |-> TRUE, val |-> v],
       banks |-> [islist |-> TRUE, allstr |-> TRUE, items |-> << >>],
       days |-> [isint |-> TRUE, val |-> 0]] : v \in AppDeposits }

InitServer ==
    /\ prog \in {"server", "app"}
    /\ \/ /\ prog = "server"
          /\ raw \in ServerFiles
          /\ names \in DisplayNames
          /\ split_dict \in SplitTables
          /\ request \in Requests
       \/ /\ prog = "app"
          /\ raw = bank_ranges
          /\ names = EmptyMap
          /\ split_dict = split_configurations
          /\ request \in AppRequests
    /\ total = request.deposit.val
    /\ response = NoRequest
    /\ evaluations = {}
    /\ workers = EmptyMap
    /\ exclude_banks = {}
    /\ pc = "start"
    /\ banks = EmptyMap
    /\ status = ""
    /\ daily_interest = Zero
    /\ allocations = EmptyMap
    /\ printed = [kind |-> "", solution |-> EmptyMap]
    /\ eval_bank = ""
    /\ eval_rate = NoRate
    /\ DriverIdle

\* server.py: the handler answers the request.
CalculateBest ==
    /\ prog = "server"
    /\ pc = "start"
    /\ LET out == calculate_best(request, raw, split_dict)
       IN  /\ response' = out.response
           /\ evaluations' = out.evaluations
    /\ pc' = "responded"
    /\ UNCHANGED <<prog, raw, total, exclude_banks, banks, status, daily_interest, allocations,
                   printed, eval_bank, eval_rate, driverVars, split_dict, request, names, workers>>

\* app.py: the handler answers the request.
AppCalculateBest ==
    /\ prog = "app"
    /\ pc = "start"
    /\ LET out == app_calculate_best(request)
       IN  /\ response' = out.response
           /\ evaluations' = out.evaluations
    /\ pc' = "responded"
    /\ UNCHANGED <<prog, raw, total, exclude_banks, banks, status, daily_interest, allocations,
                   printed, eval_bank, eval_rate, driverVars, split_dict, request, names, workers>>

\* server.py: GET /banks (lines 106-111), list(banks.keys()).
GetBanks ==
    /\ prog = "server"
    /\ pc = "start"
    /\ response' = [code |-> 200, banks |-> SelectSeq(KeyOrder, LAMBDA k : k \in DOMAIN raw)]
    /\ pc' = "listed"
    /\ UNCHANGED <<prog, raw, total, exclude_banks, banks, status, daily_interest, allocations,
                   printed, eval_bank, eval_rate, driverVars, split_dict, request, evaluations,
                   names, workers>>

NextServer == CalculateBest \/ AppCalculateBest \/ GetBanks

SpecServer == InitServer /\ [][NextServer]_vars

-----------------------------------------------------------------------------
(* Requests of server.py and calls of run_multi_day_opt side by side: each  *)
(* worker holds the locals of one handler or one call, and all of them read *)
(* the same module-level banks and split_dict and the same banks argument   *)

Workers == {1, 2}

\* The bodies sent side by side.
ConcurrentRequests ==
    { [deposit |-> [isnum |-> TRUE, val |-> v],
       banks |-> [islist |-> TRUE, allstr |-> TRUE, items |-> it],
       days |-> [isint |-> TRUE, val |-> n]] :
        v \in {0, 6}, it \in { <<"a", "b">>, <<"a", "z">> }, n \in {1} }

\* The calls of run_multi_day_opt made side by side: (initial_deposit, days).
ConcurrentRuns == { [total |-> t, days |-> n] : t \in {1, 2}, n \in {1, 2} }

\* banks.json and split_config.json of the server the requests are sent to.
ConcurrentFiles ==
    { ("a" :> << [min |-> 0, max |-> Unbounded, min_balance |-> 0, rate |-> 3650] >>)
        @@ ("b" :> << [min |-> 0, max |-> Unbounded, min_balance |-> 0, rate |-> 10] >>),
      ("a" :> << [min |-> 0, max |-> 4, min_balance |-> 0, rate |-> 20],
                 [min |-> 5, max |-> Unbounded, min_balance |-> 2, rate |-> 20] >>)
        @@ ("b" :> << [min |-> 0, max |-> 3, min_balance |-> 0, rate |-> 30],
                      [min |-> 4, max |-> Unbounded, min_balance |-> 0, rate |-> 10] >>) }

ConcurrentSplits ==
    { EmptyMap,
      ("a" :> << [max_limit |-> 4, alternative_bank |-> "b", split_upper_limit |-> 3] >>) }

\* The banks dictionary the calls of run_multi_day_opt are given.
ConcurrentBanks ==
    { ("a" :> << [min |-> 0, max |-> 5, min_balance |-> 0, rate |-> 36500],
                 [min |-> 2, max |-> Unbounded, min_balance |-> 0, rate |-> 73000] >>),
      ("a" :> << [min |-> 0, max |-> Unbounded, min_balance |-> 1, rate |-> 36500] >>)
        @@ ("b" :> << [min |-> 2, max |-> Unbounded, min_balance |-> 0, rate |-> 36500] >>) }

\* The locals of a handler of POST /calculate-best before its first statement.
RequestWorker(req) ==
    [kind |-> "request", pc |-> "start", overlap |-> FALSE, request |-> req,
     rates |-> EmptyMap, best_bank |-> "", split |-> NoSplit, response |-> NoRequest]

\* The locals of a call of run_multi_day_opt before its first statement.
RunWorker(call) ==
    [kind |-> "run", pc |-> "start", overlap |-> FALSE, total |-> call.total,
     days |-> call.days, day |-> 0, current_deposit |-> Zero, results |-> << >>]

InitConcurrent ==
    /\ prog = "concurrent"
    /\ pc = "serving"
    /\ raw \in ConcurrentFiles
    /\ split_dict \in ConcurrentSplits
    /\ banks \in ConcurrentBanks
    /\ workers \in [Workers -> { RequestWorker(req) : req \in ConcurrentRequests }
                                 \cup { RunWorker(call) : call \in ConcurrentRuns }]
    /\ names = EmptyMap
    /\ request = NoRequest
    /\ response = NoRequest
    /\ evaluations = {}
    /\ total = 0
    /\ exclude_banks = {}
    /\ status = ""
    /\ daily_interest = Zero
    /\ allocations = EmptyMap
    /\ printed = [kind |-> "", solution |-> EmptyMap]
    /\ eval_bank = ""
    /\ eval_rate = NoRate
    /\ DriverIdle

\* A handler or a call that has made its first step and not yet its last.
InFlight(w) == workers[w].pc \notin {"start", "responded", "returned"}

\* Whether a step of worker w falls between two steps of another worker.
Overlaps(w) == workers[w].overlap \/ \E o \in Workers \ {w} : InFlight(o)

\* The module-level banks and split_dict after a statement of a handler or a
\* helper of server.py: lines 30-284 assign to locals only.
server_globals_after(bks, split_table) == [banks |-> bks, split_dict |-> split_table]

\* Faulty variant: the solve leaves in its banks argument only the ranges the
\* deposit reaches.
banks_argument_after_Filtered(total_deposit, bks) ==
    [b \in DOMAIN bks |-> SelectSeq(bks[b], LAMBDA rng : rng.min <= total_deposit)]

\* The banks argument after solve_single_day(total_deposit, banks):
\* build_single_day_model and solve_single_day read banks.items() and the
\* fields of the ranges and assign to none (lines 65-249).
banks_argument_after(total_deposit, bks) == bks

\* What the steps of the workers leave alone.
ConcurrentFrame ==
    UNCHANGED <<prog, pc, total, exclude_banks, status, daily_interest, allocations, printed,
                eval_bank, eval_rate, driverVars, request, response, evaluations, names>>

\* server.py lines 115-141: the body is read and validated.
WorkerValidate(w) ==
    /\ prog = "concurrent"
    /\ workers[w].kind = "request"
    /\ workers[w].pc = "start"
    /\ LET req == workers[w].request
           selected_banks == req.banks.items
           invalid_banks == SelectSeq(selected_banks, LAMBDA bank : bank \notin DOMAIN raw)
           error == IF InvalidDeposit(req.deposit) THEN BadRequest("Invalid deposit amount.")
                    ELSE IF InvalidBanksList(req.banks) THEN BadRequest("Invalid banks list.")
                    ELSE IF selected_banks = << >> THEN BadRequest("No banks selected.")
                    ELSE IF invalid_banks # << >>
                    THEN BadRequest("Invalid bank names") @@ [names |-> invalid_banks]
                    ELSE NoRequest
           after == server_globals_after(raw, split_dict)
       IN  /\ workers' = [workers EXCEPT ![w] =
                            [@ EXCEPT !.pc = IF error = NoRequest THEN "rates" ELSE "responded",
                                      !.response = error,
                                      !.overlap = Overlaps(w)]]
           /\ raw' = after.banks
           /\ split_dict' = after.split_dict
    /\ UNCHANGED banks
    /\ ConcurrentFrame

\* server.py lines 143-155: the rate of every selected bank, and the best.
WorkerRates(w) ==
    /\ prog = "concurrent"
    /\ workers[w].kind = "request"
    /\ workers[w].pc = "rates"
    /\ LET deposit == workers[w].request.deposit.val
           selected_banks == workers[w].request.banks.items
           keys == { selected_banks[k] : k \in 1..Len(selected_banks) }
           rates == [bank_key \in keys |->
                        calculate_effective_rate_helper(deposit, raw[bank_key])]
           after == server_globals_after(raw, split_dict)
       IN  /\ workers' = [workers EXCEPT ![w] =
                            [@ EXCEPT !.pc = "split",
                                      !.rates = rates,
                                      !.best_bank = BestFrom(selected_banks, rates, 1,
                                                             selected_banks[1]),
                                      !.overlap = Overlaps(w)]]
           /\ raw' = after.banks
           /\ split_dict' = after.split_dict
    /\ UNCHANGED banks
    /\ ConcurrentFrame

\* server.py line 157: check_split_strategy reads split_dict and banks.
WorkerSplit(w) ==
    /\ prog = "concurrent"
    /\ workers[w].kind = "request"
    /\ workers[w].pc = "split"
    /\ LET after == server_globals_after(raw, split_dict)
       IN  /\ workers' = [workers EXCEPT ![w] =
                            [@ EXCEPT !.pc = "respond",
                                      !.split = check_split_strategy(
                                                    workers[w].request.deposit.val,
                                                    workers[w].best_bank, raw, split_dict),
                                      !.overlap = Overlaps(w)]]
           /\ raw' = after.banks
           /\ split_dict' = after.split_dict
    /\ UNCHANGED banks
    /\ ConcurrentFrame

\* server.py lines 159-181: the response is put together and returned.
WorkerRespond(w) ==
    /\ prog = "concurrent"
    /\ workers[w].kind = "request"
    /\ workers[w].pc = "respond"
    /\ LET req == workers[w].request
           deposit == req.deposit.val
           best_bank == workers[w].best_bank
           best_rate == workers[w].rates[best_bank]
           split == workers[w].split
           val == calculate_effective_rate_after_split(deposit, best_bank, split.info, raw)
           first == [code |-> 200,
                     best_bank |-> best_bank,
                     best_rate |-> Round2(best_rate),
                     one_day_return |-> Round2(calculate_one_day_return(deposit, best_rate)),
                     daily_balances |->
                         IF req.days.isint /\ req.days.val > 0
                         THEN compute_daily_balances_helper(deposit, best_rate, req.days.val)
                         ELSE << >>]
           after == server_globals_after(raw, split_dict)
       IN  /\ workers' = [workers EXCEPT ![w] =
                            [@ EXCEPT !.pc = "responded",
                                      !.response =
                                          IF split.needed
                                          THEN first @@
                                               [split_strategy |-> split.info,
                                                effective_rate_after_split |->
                                                    val.effective_rate_after_split,
                                                one_day_return_after_split |->
                                                    val.one_day_return_after_split]
                                          ELSE first,
                                      !.overlap = Overlaps(w)]]
           /\ raw' = after.banks
           /\ split_dict' = after.split_dict
    /\ UNCHANGED banks
    /\ ConcurrentFrame

\* multi_day.py lines 266-267: results = [], current_deposit = initial_deposit.
WorkerEnter(w) ==
    /\ prog = "concurrent"
    /\ workers[w].kind = "run"
    /\ workers[w].pc = "start"
    /\ workers' = [workers EXCEPT ![w] =
                     [@ EXCEPT !.pc = "loop",
                               !.current_deposit = Rat(workers[w].total, 1),
                               !.overlap = Overlaps(w)]]
    /\ UNCHANGED <<raw, split_dict, banks>>
    /\ ConcurrentFrame

\* multi_day.py lines 269-295: one day of the loop of one call.
WorkerRunDay(w) ==
    /\ prog = "concurrent"
    /\ workers[w].kind = "run"
    /\ workers[w].pc = "loop"
    /\ workers[w].day < workers[w].days
    /\ LET deposit == workers[w].current_deposit
           today == workers[w].day + 1
       IN  /\ \E res \in solve_single_day(Whole(deposit), banks) :
                 workers' = [workers EXCEPT ![w] =
                    IF NotOptimal(res.status)
                    THEN [@ EXCEPT !.pc = "returned", !.day = today,
                                   !.overlap = Overlaps(w)]
                    ELSE [@ EXCEPT !.day = today,
                                   !.results = Append(@, day_record(today, deposit, res)),
                                   !.current_deposit = new_deposit(deposit, res.daily_interest),
                                   !.overlap = Overlaps(w)]]
           /\ banks' = banks_argument_after(Whole(deposit), banks)
    /\ UNCHANGED <<raw, split_dict>>
    /\ ConcurrentFrame

\* multi_day.py line 297: the loop is over, results is returned.
WorkerReturn(w) ==
    /\ prog = "concurrent"
    /\ workers[w].kind = "run"
    /\ workers[w].pc = "loop"
    /\ workers[w].day >= workers[w].days
    /\ workers' = [workers EXCEPT ![w] = [@ EXCEPT !.pc = "returned",
                                                   !.overlap = Overlaps(w)]]
    /\ UNCHANGED <<raw, split_dict, banks>>
    /\ ConcurrentFrame

NextConcurrent ==
    \E w \in Workers :
        \/ WorkerValidate(w)
        \/ WorkerRates(w)
        \/ WorkerSplit(w)
        \/ WorkerRespond(w)
        \/ WorkerEnter(w)
        \/ WorkerRunDay(w)
        \/ WorkerReturn(w)

SpecConcurrent == InitConcurrent /\ [][NextConcurrent]_vars

-----------------------------------------------------------------------------
(* Properties of solve_single_day *)

SolvedOptimal == prog = "multi_day" /\ pc = "solved" /\ status = "Optimal"

RECURSIVE SumAllocated(_, _)
SumAllocated(alloc, keys) ==
    IF keys = {} THEN 0
    ELSE LET b == CHOOSE x \in keys : TRUE
         IN  alloc[b].deposit + SumAllocated(alloc, keys \ {b})

\* C1 (conservation): in every 'Optimal' result of solve_single_day the
\* deposits reported for the banks add up to total, so nothing is held in a
\* bracket other than the one reported as chosen.
C1_Conservation ==
    SolvedOptimal =>
        /\ DOMAIN allocations = DOMAIN banks
        /\ SumAllocated(allocations, DOMAIN allocations) = total

\* An 'Optimal' result over two banks, one of them with two brackets, in
\* which both banks hold part of the total.
C1_Witness ==
    /\ SolvedOptimal
    /\ DOMAIN allocations = {"a", "b"}
    /\ Len(banks["a"]) = 2
    /\ allocations["a"].deposit > 0
    /\ allocations["b"].deposit > 0

\* C2 (bracket membership): in every 'Optimal' result each bank has a chosen
\* bracket and its deposit d satisfies min <= d <= min(max, total) there.
C2_BracketMembership ==
    SolvedOptimal =>
        \A b \in DOMAIN banks :
            /\ allocations[b].range_idx # NoIdx
            /\ allocations[b].range_idx \in 1..Len(banks[b])
            /\ LET rng == banks[b][allocations[b].range_idx]
                   d == allocations[b].deposit
               IN  /\ rng.min <= d
                   /\ d <= rng.max
                   /\ d <= total

\* An 'Optimal' result in which a bank sits in the second of its brackets, at
\* a deposit above that bracket's min and below the total.
C2_Witness ==
    /\ SolvedOptimal
    /\ DOMAIN allocations = {"a", "b"}
    /\ allocations["a"].range_idx = 2
    /\ allocations["a"].deposit > banks["a"][2].min
    /\ allocations["a"].deposit < total

\* The allocations the specification ranges over: one bracket per bank and an
\* amount inside that bracket's [min, max], the amounts summing to total.
RECURSIVE Placements(_, _, _)
Placements(bks, keys, amount) ==
    IF keys = {} THEN IF amount = 0 THEN { EmptyMap } ELSE {}
    ELSE LET b == CHOOSE x \in keys : TRUE
             inside == { c \in [idx : 1..Len(bks[b]), amount : 0..amount] :
                           /\ bks[b][c.idx].min <= c.amount
                           /\ c.amount <= bks[b][c.idx].max }
         IN  UNION { { (b :> c) @@ rest :
                        rest \in Placements(bks, keys \ {b}, amount - c.amount) } :
                     c \in inside }

Positive(x) == IF x > 0 THEN x ELSE 0

RECURSIVE PlacementInterest(_, _, _)
PlacementInterest(bks, pl, keys) ==
    IF keys = {} THEN 0
    ELSE LET b == CHOOSE x \in keys : TRUE
             rng == bks[b][pl[b].idx]
         IN  Positive(pl[b].amount - rng.min_balance) * rng.rate
               + PlacementInterest(bks, pl, keys \ {b})

-----------------------------------------------------------------------------
(* The documented two-account example, in units of 10,000: A is one bracket *)
(* (0, 50000, 0, 10%), B is one bracket (0, unbounded, 0, 20%), and         *)
(* total_amount is 80000.                                                   *)

ExampleBanks ==
    ("a" :> << [min |-> 0, max |-> 5, min_balance |-> 0, rate |-> 10] >>)
      @@ ("b" :> << [min |-> 0, max |-> Unbounded, min_balance |-> 0, rate |-> 20] >>)

ExampleSolved ==
    /\ prog = "multi_day"
    /\ pc = "solved"
    /\ raw = ExampleBanks
    /\ exclude_banks = {}
    /\ total = 8

\* C4 as stated: the example's solve places 50000 in A and 30000 in B, with
\* total daily interest (50000 * 0.10 + 30000 * 0.20) / 365.
C4_Original ==
    ExampleSolved =>
        /\ status = "Optimal"
        /\ allocations["a"].deposit = 5
        /\ allocations["b"].deposit = 3
        /\ daily_interest = Rat(5 * 10 + 3 * 20, Percent * DaysPerYear)

\* C4 (amended): the example's solve is 'Optimal' and places nothing in A
\* and the whole 80000 in B, with total daily interest 80000 * 0.20 / 365.
C4_ExampleAllocation ==
    ExampleSolved =>
        /\ status = "Optimal"
        /\ allocations["a"] = [range_idx |-> 1, deposit |-> 0, interest |-> 0]
        /\ allocations["b"] = [range_idx |-> 1, deposit |-> 8, interest |-> 8]
        /\ daily_interest = Rat(8 * 20, Percent * DaysPerYear)

\* The example has been solved.
C4_Witness == ExampleSolved /\ status = "Optimal" /\ allocations["b"].deposit = 8

\* C5 as stated, in its weaker reading (both solves 'Optimal'): for totals
\* t1 < t2 over the same banks the optimal daily interest for t2 is at least
\* the one for t1.
C5_Original ==
    SolvedOptimal =>
        \A t1 \in 1..(total - 1) :
            \A res \in solve_single_day(t1, banks) :
                res.status = "Optimal" => RatLeq(res.daily_interest, daily_interest)

\* Some bank of the result sits in a bracket that has no upper limit.
HoldsOpenBracket ==
    \E b \in DOMAIN allocations :
        /\ allocations[b].range_idx # NoIdx
        /\ banks[b][allocations[b].range_idx].max = Unbounded

\* C5 (amended): when the optimal allocation for t1 holds some bank in a
\* bracket without upper limit, every larger total t2 over the same banks
\* solves 'Optimal' with a daily interest at least that of t1.
C5_MonotoneWhenOpen ==
    (SolvedOptimal /\ HoldsOpenBracket) =>
        \A t2 \in (total + 1)..MaxTotal :
            \A res \in solve_single_day(t2, banks) :
                /\ res.status = "Optimal"
                /\ RatLeq(daily_interest, res.daily_interest)

\* An 'Optimal' result below MaxTotal that holds a bank in an open bracket
\* while another bank has a capped bracket, and earns interest.
C5_Witness ==
    /\ SolvedOptimal
    /\ HoldsOpenBracket
    /\ total < MaxTotal
    /\ DOMAIN banks = {"a", "b"}
    /\ banks["b"][1].max < total
    /\ daily_interest.num > 0

OneBank == prog = "multi_day" /\ pc = "solved" /\ Cardinality(DOMAIN banks) = 1

\* C6 as stated: with exactly one bank, for every total, the bank's deposit is
\* total and daily_interest is
\* total * calculate_effective_rate_helper(total, ranges) / 100 / 365.
C6_Original ==
    OneBank =>
        \A b \in DOMAIN banks :
            /\ b \in DOMAIN allocations
            /\ allocations[b].deposit = total
            /\ daily_interest =
                 calculate_one_day_return(total,
                     calculate_effective_rate_helper(total, banks[b]))

\* C6 (amended): with exactly one bank the solve is 'Optimal' exactly when
\* some bracket contains total; then the bank's deposit is total in such a
\* bracket and daily_interest is total * rate / 100 / 365 for the evaluator's
\* rate of that bracket, the best of the brackets containing total; it equals
\* the evaluator's result for the schedule when one bracket alone contains
\* total.
C6_SingleAccount ==
    OneBank =>
        \A b \in DOMAIN banks :
            LET hits == { k \in 1..Len(banks[b]) :
                            banks[b][k].min <= total /\ total <= banks[b][k].max }
                ret(k) == calculate_one_day_return(total, RateOfRange(banks[b][k], total))
            IN  /\ status = "Optimal" <=> hits # {}
                /\ status = "Optimal" =>
                     /\ allocations[b].deposit = total
                     /\ allocations[b].range_idx \in hits
                     /\ daily_interest = ret(allocations[b].range_idx)
                     /\ \A k \in hits : RatLeq(ret(k), daily_interest)
                     /\ Cardinality(hits) = 1 =>
                          daily_interest =
                            calculate_one_day_return(total,
                                calculate_effective_rate_helper(total, banks[b]))

\* A single bank solved 'Optimal' in the second of its two brackets, whose
\* min_balance is positive and below the total.
C6_Witness ==
    /\ OneBank
    /\ status = "Optimal"
    /\ \E b \in DOMAIN banks :
          /\ Len(banks[b]) = 2
          /\ allocations[b].range_idx = 2
          /\ banks[b][2].min_balance > 0
          /\ banks[b][2].min_balance < total
          /\ banks[b][1].max < total

RECURSIVE SmallestMinSum(_, _)
SmallestMinSum(bks, keys) ==
    IF keys = {} THEN 0
    ELSE LET b == CHOOSE x \in keys : TRUE
         IN  SetMin({ bks[b][k].min : k \in 1..Len(bks[b]) })
               + SmallestMinSum(bks, keys \ {b})

BelowMinimums == total < SmallestMinSum(banks, DOMAIN banks)

\* C7 (infeasibility detection): when total is below the sum of the banks'
\* smallest bracket minimums, solve_single_day returns a status other than
\* 'Optimal' with empty allocations, and split_maximizer's maximize_interest
\* ends in its infeasible exit or its no-optimal-solution branch and prints no
\* allocation.
C7_InfeasibilityDetected ==
    /\ (prog = "multi_day" /\ pc = "solved" /\ BelowMinimums) =>
          /\ status # "Optimal"
          /\ allocations = EmptyMap
          /\ daily_interest = Zero
    /\ (prog = "split_maximizer" /\ printed.kind # "" /\ BelowMinimums) =>
          /\ printed.kind \in {"infeasible_exit", "no_optimal"}
          /\ printed.solution = EmptyMap

\* split_maximizer: the pre-check on min_balance passed, yet the total is
\* below the sum of the smallest minimums and the solve found nothing.
C7_Witness ==
    /\ prog = "split_maximizer"
    /\ pc = "solved"
    /\ BelowMinimums
    /\ calculate_min_sum(banks) <= total
    /\ printed.kind = "no_optimal"

\* Some bank that is not excluded has every bracket's min above the total.
Degenerate(b) ==
    /\ b \in DOMAIN raw \ exclude_banks
    /\ \A k \in 1..Len(raw[b]) : raw[b][k].min > total

\* Another bank has a valid bracket that can hold the whole total.
OthersCanHold(b) ==
    \E c \in (DOMAIN raw \ exclude_banks) \ {b} :
        /\ \A k \in 1..Len(raw[c]) : raw[c][k].min_balance <= raw[c][k].min
        /\ \E k \in 1..Len(raw[c]) : raw[c][k].min <= total /\ total <= raw[c][k].max

\* C8 as stated: a bank with total below every bracket's min, beside banks
\* that can hold the total, receives 0 with no chosen bracket and the solve
\* succeeds for the others.
C8_Original ==
    (/\ prog = "multi_day"
     /\ pc \in {"exit", "solved"}
     /\ \E b \in DOMAIN raw : Degenerate(b) /\ OthersCanHold(b)) =>
        /\ pc = "solved"
        /\ status = "Optimal"
        /\ \A b \in DOMAIN raw :
              Degenerate(b) =>
                  /\ b \in DOMAIN allocations
                  /\ allocations[b].deposit = 0
                  /\ allocations[b].range_idx = NoIdx

\* C8 (amended): when total is below every bracket's min of some bank,
\* load_banks exits with an error: the whole request fails, nothing is solved
\* and no allocation is returned, also when other banks could hold the total.
C8_LoadRejects ==
    (/\ prog = "multi_day"
     /\ pc # "start"
     /\ \E b \in DOMAIN raw : Degenerate(b)) =>
        /\ pc = "exit"
        /\ banks = EmptyMap
        /\ status = ""
        /\ allocations = EmptyMap

\* load_banks has exited on a file in which one bank lies wholly above the
\* total and the other could hold it.
C8_Witness ==
    /\ prog = "multi_day"
    /\ pc = "exit"
    /\ \E b \in DOMAIN raw : Degenerate(b) /\ OthersCanHold(b)

-----------------------------------------------------------------------------
(* Properties of the rate evaluator *)

Rated == prog = "server" /\ pc = "rated"

\* The indices of the brackets of the evaluated bank that contain the amount.
Hits == { k \in 1..Len(raw[eval_bank]) :
            raw[eval_bank][k].min <= total /\ total <= raw[eval_bank][k].max }

FirstHit == raw[eval_bank][SetMin(Hits)]

\* C9: the first bracket in list order with min <= amount <= max decides
\* alone: the result is what the evaluator returns for that bracket by itself,
\* it is 0.0 when amount - min_balance <= 0 there whatever later brackets hold,
\* and it is 0.0 when no bracket contains the amount.
C9_FirstBracketDecides ==
    Rated =>
        IF Hits = {}
        THEN eval_rate = Zero
        ELSE /\ eval_rate = calculate_effective_rate_helper(total, << FirstHit >>)
             /\ total - FirstHit.min_balance <= 0 => eval_rate = Zero

\* The amount lies in two brackets; the first earns nothing, the second would.
C9_Witness ==
    /\ Rated
    /\ Cardinality(Hits) = 2
    /\ total - FirstHit.min_balance <= 0
    /\ \E k \in Hits : total - raw[eval_bank][k].min_balance > 0
    /\ eval_rate = Zero

\* C10 as stated, over brackets that keep min_balance <= min: for an amount
\* inside a bracket and above its min_balance the evaluator returns the
\* percentage rate of the first bracket containing it.
C10_Original ==
    (/\ Rated
     /\ Hits # {}
     /\ FirstHit.min_balance <= FirstHit.min
     /\ total > FirstHit.min_balance) =>
        eval_rate = Rat(FirstHit.rate, 1)

\* C10 (amended): for an amount inside a bracket and above the min_balance of
\* the first bracket containing it, the evaluator returns
\* rate * (amount - min_balance) / amount of that bracket, which is the
\* bracket's rate when its min_balance is 0 (35.0 for 250000 in the example).
C10_EffectiveRate ==
    (Rated /\ Hits # {} /\ total > FirstHit.min_balance) =>
        /\ eval_rate = Rat(FirstHit.rate * (total - FirstHit.min_balance), total)
        /\ FirstHit.min_balance = 0 => eval_rate = Rat(FirstHit.rate, 1)
        /\ (raw[eval_bank] = ExampleSchedule /\ total = ExampleAmount) =>
              eval_rate = Rat(35, 1)

\* The documented example has been evaluated.
C10_Witness ==
    /\ Rated
    /\ raw[eval_bank] = ExampleSchedule
    /\ total = ExampleAmount
    /\ eval_rate = Rat(35, 1)

-----------------------------------------------------------------------------
(* Properties of schedule validation *)

\* Two brackets of one schedule contain a common amount (a shared boundary
\* value included).
Overlapping(ranges) ==
    \E j, k \in 1..Len(ranges) :
        /\ j < k
        /\ ranges[j].min <= ranges[k].max
        /\ ranges[k].min <= ranges[j].max

\* C11 as stated: a schedule in which two brackets of one account contain a
\* common amount is rejected when it is loaded, so load_banks never returns
\* it, the evaluator never rates an amount that two brackets contain, and the
\* allocator never hands a bank a deposit that two of its brackets contain.
C11_Original ==
    /\ (prog \in {"multi_day", "split_maximizer"} /\ pc \in {"loaded", "solved"}) =>
          \A b \in DOMAIN banks : ~Overlapping(banks[b])
    /\ Rated => Cardinality(Hits) <= 1
    /\ SolvedOptimal =>
          \A b \in DOMAIN banks :
              Cardinality({ k \in 1..Len(banks[b]) :
                              Contains(banks[b][k], allocations[b].deposit) }) <= 1

\* load_banks has run and has called sys.exit(1).
LoadRejected ==
    /\ prog \in {"multi_day", "split_maximizer"}
    /\ pc = "exit"
    /\ banks = EmptyMap
    /\ printed.kind = ""

\* load_banks has run and has returned a dictionary.
LoadAccepted ==
    /\ prog \in {"multi_day", "split_maximizer"}
    /\ pc # "start"
    /\ ~LoadRejected

\* Bracket k of bank b breaks min_balance <= min.
Offending(b, k) == raw[b][k].min_balance > raw[b][k].min

\* Bracket k of bank b passes the pre-filter on the total.
Survives(b, k) == raw[b][k].min_balance <= total /\ raw[b][k].min <= total

-----------------------------------------------------------------------------
(* Properties of run_multi_day_opt *)

\* Every deposit the driver hands to the solver is a whole amount.
DriverWhole == current_deposit.den = 1 /\ daily_interest.den = 1

\* run_multi_day_opt has returned its list.
Returned == prog = "multi_day" /\ pc \in {"returned", "printed"}

\* The greatest daily interest of any placement of amount over bks, and
\* whether there is a placement at all.
Placeable(bks, amount) == Placements(bks, DOMAIN bks, amount) # {}

BestPlacement(bks, amount) ==
    LET earned == { PlacementInterest(bks, pl, DOMAIN bks) :
                      pl \in Placements(bks, DOMAIN bks, amount) }
    IN  Rat(CHOOSE x \in earned : \A y \in earned : y <= x, Percent * DaysPerYear)

\* C13: in the returned list the first record starts at initial, every later
\* record starts at the previous record's end_deposit, every record ends at
\* start_deposit + interest, and its interest is the optimal daily interest
\* of the same banks for total = start_deposit.
C13_RecordsChain ==
    Returned =>
        \A k \in 1..Len(results) :
            LET rec == results[k]
            IN  /\ rec.start_deposit =
                      IF k = 1 THEN Rat(total, 1) ELSE results[k - 1].end_deposit
                /\ rec.end_deposit = RatAdd(rec.start_deposit, rec.interest)
                /\ rec.start_deposit.den = 1
                /\ Placeable(banks, rec.start_deposit.num)
                /\ rec.interest = BestPlacement(banks, rec.start_deposit.num)

\* Three days over two banks, the deposit growing from day to day.
C13_Witness ==
    /\ Returned
    /\ Len(results) = 3
    /\ DOMAIN banks = {"a", "b"}
    /\ results[1].interest.num > 0
    /\ RatLeq(results[1].end_deposit, results[2].start_deposit)
    /\ results[3].start_deposit # results[2].start_deposit
    /\ results[3].splits["a"].deposit > 0
    /\ results[3].splits["b"].deposit > 0

\* The number of records a run of n days from amount must return: the days
\* before the first one whose deposit no placement can hold.
RECURSIVE CompletedDays(_, _, _)
CompletedDays(bks, amount, n) ==
    IF n = 0 \/ ~Placeable(bks, amount) THEN 0
    ELSE 1 + CompletedDays(bks, amount + BestPlacement(bks, amount).num, n - 1)

\* The last solve of the run did not end 'Optimal'.
PeriodFailed == prog = "multi_day" /\ status \notin {"", "Optimal"}

C14_State ==
    (prog = "multi_day" /\ pc # "start") =>
        /\ solves <= days
        /\ \A k \in 1..Len(results) : results[k].day = k
        /\ pc = "loop" => solves = day /\ Len(results) = day /\ day <= days
        /\ PeriodFailed => Returned /\ solves = Len(results) + 1
        /\ Returned =>
              /\ Len(results) = CompletedDays(banks, total, days)
              /\ ~PeriodFailed => Len(results) = days /\ solves = days
              /\ PeriodFailed => Len(results) < days
              /\ days = 0 => results = << >> /\ solves = 0

\* C14: the driver solves at most N periods and then returns (every pass of
\* the loop is one solve and moves day one step towards N, where the loop
\* ends); the records carry day = 1..k, with k = N when every period solved
\* 'Optimal' and otherwise k = the first failing period - 1; once a period
\* has failed or the list is returned nothing more is solved or recorded, and
\* the banks the solves see never change; N = 0 returns the empty list.
C14_BoundedRun ==
    /\ []C14_State
    /\ [][pc = "loop" => (pc' = "returned" \/ (day' = day + 1 /\ day' <= days))]_vars
    /\ [][(PeriodFailed \/ Returned) => UNCHANGED <<results, solves, status, banks>>]_vars
    /\ [][pc = "loop" => banks' = banks]_vars

\* A run that stopped after at least one completed day, days before N.
C14_Witness ==
    /\ Returned
    /\ PeriodFailed
    /\ Len(results) >= 1
    /\ solves < days

\* What run_multi_day_opt returns when days = 0: the list of line 266, the
\* loop body never run.
ZeroDaysReturn == << >>

\* C15 as stated: the value returned after an infeasible period tells the
\* caller that the run stopped early; in particular it differs from the value
\* a run with no periods returns.
C15_Original ==
    (Returned /\ PeriodFailed /\ DOMAIN banks # {}) => results # ZeroDaysReturn

\* C15 (amended): the driver returns the list of the completed days'
\* records and nothing else.  The list is shorter than the number of days
\* asked for exactly when a period failed, so a caller who knows that number
\* can tell; the value alone cannot: a failed first period returns the empty
\* list, as a run of 0 days does, and print_multi_day_opt_results prints the
\* same message for both.
C15_ListOnly ==
    Returned =>
        /\ PeriodFailed <=> Len(results) < days
        /\ days = 0 => results = ZeroDaysReturn
        /\ (PeriodFailed /\ solves = 1) => results = ZeroDaysReturn
        /\ pc = "printed" =>
              (printed.kind = "no_feasible_or_stopped_early" <=> results = << >>)

\* The first of several days was infeasible and the empty list was printed.
C15_Witness ==
    /\ prog = "multi_day"
    /\ pc = "printed"
    /\ PeriodFailed
    /\ solves = 1
    /\ days > 1
    /\ DOMAIN banks # {}
    /\ results = << >>
    /\ printed.kind = "no_feasible_or_stopped_early"

RECURSIVE RatPow(_, _)
RatPow(x, k) == IF k = 0 THEN Rat(1, 1) ELSE RatMul(x, RatPow(x, k - 1))

\* One account whose schedule is the single bracket [0, unbounded) with
\* min_balance 0.
FlatAccount ==
    /\ Returned
    /\ Cardinality(DOMAIN banks) = 1
    /\ \A b \in DOMAIN banks :
          /\ Len(banks[b]) = 1
          /\ banks[b][1].min = 0
          /\ banks[b][1].max = Unbounded
          /\ banks[b][1].min_balance = 0

FlatRate == banks[CHOOSE b \in DOMAIN banks : TRUE][1].rate

\* C16: over one account with the single bracket [0, unbounded), min_balance 0
\* and annual rate r, the driver returns N records; period k earns
\* opening_k * r / 100 / 365 and closes at initial * (1 + r / 36500)^k.
C16_FlatCompounding ==
    FlatAccount =>
        /\ Len(results) = days
        /\ \A k \in 1..Len(results) :
              /\ results[k].interest =
                    RatMul(results[k].start_deposit, Rat(FlatRate, Percent * DaysPerYear))
              /\ results[k].end_deposit =
                    RatMul(Rat(total, 1),
                           RatPow(Rat(Percent * DaysPerYear + FlatRate,
                                      Percent * DaysPerYear), k))

\* Three days of compounding on one flat account.
C16_Witness ==
    /\ FlatAccount
    /\ days = 3
    /\ Len(results) = 3
    /\ total = 3
    /\ FlatRate = 36500
    /\ results[3].end_deposit = Rat(24, 1)

-----------------------------------------------------------------------------
(* Properties of the split advisor and of POST /calculate-best *)

Responded == prog \in {"server", "app"} /\ pc = "responded"

\* The handler recommended a split.
SplitAnswered == Responded /\ "split_strategy" \in DOMAIN response

\* The recommended amounts and the entries of the best bank's split table, in
\* the field names of the program that answered.
MainAmount ==
    IF prog = "server" THEN response.split_strategy.recommended_main_bank_deposit
    ELSE response.split_strategy.recommended_best_deposit

AlternativeAmount == response.split_strategy.recommended_alternative_deposit

TableEntries ==
    LET l == split_dict[response.best_bank]
    IN  { IF prog = "server"
          THEN l[k]
          ELSE [max_limit |-> l[k][1], alternative_bank |-> l[k][2],
                split_upper_limit |-> l[k][3]] : k \in 1..Len(l) }

\* C17: server.py's check_split_strategy recommends a split from an entry
\* (max_limit, alternative_bank, split_upper_limit) only if
\* max_limit <= deposit <= max_limit + split_upper_limit, so the alternative
\* amount is never negative and the main amount never exceeds the deposit.
C17_Original ==
    (prog = "server" /\ SplitAnswered) =>
        /\ \E e \in TableEntries :
              /\ e.max_limit = MainAmount
              /\ e.alternative_bank = response.split_strategy.alternative_bank
              /\ e.max_limit <= request.deposit.val
              /\ request.deposit.val <= e.max_limit + e.split_upper_limit
        /\ AlternativeAmount >= 0
        /\ MainAmount <= request.deposit.val

\* C18: when a split is recommended, the primary amount is the boundary of the
\* table entry that matched and the alternative amount is the deposit minus
\* it, the two summing to the deposit.
C18_Original ==
    SplitAnswered =>
        /\ \E e \in TableEntries :
              /\ e.max_limit = MainAmount
              /\ e.alternative_bank = response.split_strategy.alternative_bank
        /\ AlternativeAmount = request.deposit.val - MainAmount
        /\ MainAmount + AlternativeAmount = request.deposit.val

\* The rate the schedule of a bank gives an amount, by the evaluator of the
\* program that answered.
ScheduleRate(bank, amount) ==
    IF prog = "server" THEN calculate_effective_rate_helper(amount, raw[bank])
    ELSE IF Len(raw[bank][1]) = 4 THEN app_calculate_effective_rate_helper(amount, raw[bank])
    ELSE enpara_rate(amount)

DailyReturn(bank, amount) == calculate_one_day_return(amount, ScheduleRate(bank, amount))

BlendedReturn ==
    RatAdd(DailyReturn(response.best_bank, MainAmount),
           DailyReturn(response.split_strategy.alternative_bank, AlternativeAmount))

\* C19: for a recommended split, one_day_return_after_split is the daily
\* return of the primary amount under the primary schedule plus that of the
\* alternative amount under the alternative schedule, and
\* effective_rate_after_split is that total * 365 / deposit * 100, both rounded
\* to two decimals.
C19_Original ==
    (SplitAnswered /\ response.split_strategy.alternative_bank \in DOMAIN raw) =>
        /\ response.one_day_return_after_split = Round2(BlendedReturn)
        /\ response.effective_rate_after_split =
              Round2(RatMul(RatDivInt(RatMul(BlendedReturn, Rat(DaysPerYear, 1)),
                                      request.deposit.val),
                            Rat(Percent, 1)))

\* The cases of a request to server.py, in the words of the claim.
DepositRejected == ~request.deposit.isnum \/ request.deposit.val <= 0
BanksMalformed == ~request.banks.islist \/ ~request.banks.allstr
BanksEmpty == request.banks.islist /\ request.banks.allstr /\ request.banks.items = << >>
BanksUnknown ==
    /\ request.banks.islist
    /\ request.banks.allstr
    /\ \E k \in 1..Len(request.banks.items) : request.banks.items[k] \notin DOMAIN raw

Rejected(message) ==
    /\ response.code = 400
    /\ response.error = message
    /\ evaluations = {}

Answered ==
    /\ response.code = 200
    /\ {"best_bank", "best_rate", "one_day_return"} \subseteq DOMAIN response

\* C20: POST /calculate-best answers 400 and evaluates no rate when the
\* deposit is not a number or is <= 0, when the banks list is empty, or when a
\* selected bank is unknown, in that order; every other request is answered
\* 200 with best_bank, best_rate and one_day_return.
C20_Original ==
    (prog = "server" /\ Responded) =>
        IF DepositRejected THEN Rejected("Invalid deposit amount.")
        ELSE IF BanksEmpty THEN Rejected("No banks selected.")
        ELSE IF BanksUnknown THEN Rejected("Invalid bank names")
        ELSE Answered

\* C20, amended: between the check of the deposit and the check for an empty
\* list, a banks field that is not a list, or a list with an item that is not
\* a string, is answered 400 'Invalid banks list.'.
C20_ValidationOrder ==
    (prog = "server" /\ Responded) =>
        IF DepositRejected THEN Rejected("Invalid deposit amount.")
        ELSE IF BanksMalformed THEN Rejected("Invalid banks list.")
        ELSE IF BanksEmpty THEN Rejected("No banks selected.")
        ELSE IF BanksUnknown
             THEN /\ Rejected("Invalid bank names")
                  /\ response.names =
                        SelectSeq(request.banks.items, LAMBDA bank : bank \notin DOMAIN raw)
        ELSE Answered

\* A request with a sound deposit whose banks field is not a list of strings,
\* answered.
C20_Witness ==
    /\ prog = "server"
    /\ Responded
    /\ ~DepositRejected
    /\ BanksMalformed
    /\ Rejected("Invalid banks list.")

\* A 200 answer of server.py's handler.
ServerAnswered == prog = "server" /\ Responded /\ response.code = 200

\* Some entry of the best bank's split table admits the deposit, by the test
\* of lines 251-274 read off the configuration.
SplitApplies ==
    LET deposit == request.deposit.val
        best_bank == response.best_bank
    IN  /\ best_bank \in DOMAIN split_dict
        /\ \E j \in 1..Len(raw[best_bank]) :
              raw[best_bank][j].min <= deposit /\ deposit <= raw[best_bank][j].max
        /\ \E k \in 1..Len(split_dict[best_bank]) :
              deposit <= split_dict[best_bank][k].max_limit
                           + split_dict[best_bank][k].split_upper_limit

\* C21: a /calculate-best answer holds effective_rate_after_split and
\* one_day_return_after_split exactly when it holds split_strategy, and holds
\* split_strategy exactly when check_split_strategy recommends a split for
\* (deposit, best_bank); with no split it holds none of the three keys.
C21_SplitKeys ==
    ServerAnswered =>
        /\ ("effective_rate_after_split" \in DOMAIN response)
              <=> ("split_strategy" \in DOMAIN response)
        /\ ("one_day_return_after_split" \in DOMAIN response)
              <=> ("split_strategy" \in DOMAIN response)
        /\ ("split_strategy" \in DOMAIN response) <=> SplitApplies
        /\ ~SplitApplies =>
              DOMAIN response \cap {"split_strategy", "effective_rate_after_split",
                                    "one_day_return_after_split"} = {}

\* The best bank has a split table, the deposit lies above every entry's
\* reach, and the answer carries none of the three keys.
C21_Witness ==
    /\ ServerAnswered
    /\ response.best_bank \in DOMAIN split_dict
    /\ ~SplitApplies
    /\ "split_strategy" \notin DOMAIN response
    /\ "effective_rate_after_split" \notin DOMAIN response

\* GET /banks has answered.
Listed == prog = "server" /\ pc = "listed"

\* C22: GET /banks answers 200 with a list 'banks' that holds, for every
\* configured bank, the bank's display name bank_info['name'].
C22_Original ==
    Listed =>
        /\ response.code = 200
        /\ \A bank_key \in DOMAIN raw :
              \E i \in 1..Len(response.banks) : response.banks[i] = names[bank_key]

-----------------------------------------------------------------------------
(* Further properties of the multi-day driver *)

\* The brackets of a bank the allocator is given in every period: those of
\* the banks argument, which load_banks built once.
Considered(bank_key) ==
    IF bank_key \in DOMAIN banks
    THEN { banks[bank_key][j] : j \in 1..Len(banks[bank_key]) }
    ELSE {}

\* The brackets of a bank in banks.json that a balance reaches.
WithinReach(bank_key, balance) ==
    { raw[bank_key][j] : j \in { i \in 1..Len(raw[bank_key]) :
                                   /\ raw[bank_key][i].min <= balance
                                   /\ raw[bank_key][i].min_balance <= balance } }

\* C23: in every period k of a run set up as in main(), the brackets the
\* allocator considers for a bank are those whose min does not exceed period
\* k's opening balance; a bracket whose min exceeds the initial deposit is
\* available from the first period whose opening balance reaches it.
C23_Original ==
    (Returned /\ exclude_banks = {}) =>
        \A k \in 1..Len(results) :
            \A bank_key \in DOMAIN raw :
                Considered(bank_key) = WithinReach(bank_key, Whole(results[k].start_deposit))

\* solve_single_day has returned to main().
Solved == prog = "multi_day" /\ pc = "solved"

\* C24: solve_single_day returns a non-empty allocations map only with status
\* 'Optimal'; with any other status it returns daily_interest 0.0 and an empty
\* map, so an infeasible solve differs from a feasible one that earns nothing
\* (status 'Optimal', one allocation entry per bank).
C24_TypedFailure ==
    Solved =>
        /\ allocations # EmptyMap => status = "Optimal"
        /\ status # "Optimal" => (daily_interest = Zero /\ allocations = EmptyMap)
        /\ status = "Optimal" =>
              /\ DOMAIN allocations = DOMAIN banks
              /\ allocations # EmptyMap
        /\ status = "Infeasible" <=> Placements(banks, DOMAIN banks, total) = {}

\* A feasible solve that earns nothing: every bank has its entry.
C24_Witness ==
    /\ Solved
    /\ status = "Optimal"
    /\ daily_interest = Zero
    /\ DOMAIN allocations = DOMAIN banks
    /\ \E b \in DOMAIN allocations : allocations[b].deposit > 0

-----------------------------------------------------------------------------
(* Further properties of POST /calculate-best *)

\* The positions of the selected banks and their rates at the full deposit.
Selected == request.banks.items

RateAtDeposit(bank_key) == calculate_effective_rate_helper(request.deposit.val, raw[bank_key])

\* One day of growth at the best bank's rate for the initial deposit.
GrowthFactor ==
    RatAdd(Rat(1, 1), RatDivInt(RatDivInt(RateAtDeposit(response.best_bank), Percent),
                                DaysPerYear))

DaysGiven == request.days.isint /\ request.days.val > 0

\* C26: compute_daily_balances_helper returns days + 1 balances, the first
\* the initial deposit and each next the one before times
\* (1 + best_rate / 100 / 365), with the one rate evaluated at the initial
\* deposit; daily_balances is [] exactly when days is not a positive integer.
C26_DailyBalances ==
    ServerAnswered =>
        LET daily_balances == response.daily_balances
        IN  /\ (daily_balances = << >>) <=> ~DaysGiven
            /\ DaysGiven =>
                  /\ Len(daily_balances) = request.days.val + 1
                  /\ daily_balances[1] = Rat(request.deposit.val, 1)
                  /\ \A i \in 1..request.days.val :
                        daily_balances[i + 1] = RatMul(daily_balances[i], GrowthFactor)

\* Two days asked for, three balances returned, the balance growing.
C26_Witness ==
    /\ ServerAnswered
    /\ request.days.isint
    /\ request.days.val = 2
    /\ Len(response.daily_balances) = 3
    /\ response.daily_balances[3] # response.daily_balances[2]
    /\ response.daily_balances[2] # response.daily_balances[1]

\* C27: best_bank is a selected bank whose rate at the full deposit no other
\* selected bank exceeds; of several with the highest rate, the first in the
\* request's list is returned.
C27_BestBank ==
    ServerAnswered =>
        \E i \in 1..Len(Selected) :
            /\ Selected[i] = response.best_bank
            /\ \A j \in 1..Len(Selected) :
                  RatLeq(RateAtDeposit(Selected[j]), RateAtDeposit(Selected[i]))
            /\ \A j \in 1..(i - 1) : RateAtDeposit(Selected[j]) # RateAtDeposit(Selected[i])
            /\ response.best_rate = Round2(RateAtDeposit(Selected[i]))

\* Two selected banks share the highest rate, which is not zero, and the
\* first of the list is returned.
C27_Witness ==
    /\ ServerAnswered
    /\ Len(Selected) = 2
    /\ Selected[1] # Selected[2]
    /\ RateAtDeposit(Selected[1]) = RateAtDeposit(Selected[2])
    /\ RateAtDeposit(Selected[1]) # Zero
    /\ response.best_bank = Selected[1]
    /\ Selected[1] = "b"

\* C30: whenever /calculate-best recommends a split, the reported
\* one_day_return_after_split is at least the reported one_day_return of
\* keeping the whole deposit in best_bank.
C30_Original ==
    (prog = "server" /\ SplitAnswered) =>
        RatLeq(response.one_day_return, response.one_day_return_after_split)

-----------------------------------------------------------------------------
(* Properties of run_multi_day_opt over any banks dictionary *)

\* C28: over banks with non-negative rates every record has interest >= 0 and
\* end_deposit >= start_deposit; the balance never decreases from one period
\* to the next and every period opens with at least the initial deposit.
C28_NeverDecreases ==
    prog = "multi_day" =>
        /\ \A k \in 1..Len(results) :
              /\ RatLeq(Zero, results[k].interest)
              /\ RatLeq(results[k].start_deposit, results[k].end_deposit)
              /\ RatLeq(Rat(total, 1), results[k].start_deposit)
              /\ k > 1 => RatLeq(results[k - 1].end_deposit, results[k].start_deposit)
              /\ k > 1 => RatLeq(results[k - 1].start_deposit, results[k].start_deposit)
        /\ pc = "loop" => RatLeq(Rat(total, 1), current_deposit)

\* Two periods over a bracket whose min_balance exceeds its min: the first
\* earns, the second opens higher.
C28_Witness ==
    /\ prog = "multi_day"
    /\ pc = "returned"
    /\ Len(results) >= 2
    /\ \E b \in DOMAIN banks : \E j \in 1..Len(banks[b]) :
          /\ banks[b][j].min_balance > banks[b][j].min
          /\ results[1].splits[b].range_idx = j
    /\ results[1].interest # Zero
    /\ results[2].start_deposit # results[1].start_deposit

-----------------------------------------------------------------------------
(* main.py's model against multi_day.py's model *)

\* main.py's maximize_interest has solved.
MainSolved == prog = "main" /\ pc = "solved"

\* multi_day.py's model of the same banks and total.
SingleDay == LpSolve(total, banks, BigM(total))

\* C29: main.py's model (one deposit variable per bank) and multi_day.py's
\* model (one per bank and range) agree for every total and bank set: one is
\* feasible exactly when the other is, and both have the same optimal daily
\* interest.
C29_Original ==
    MainSolved =>
        /\ (status = "Optimal") <=> (SingleDay.status = "Optimal")
        /\ status = "Optimal" => daily_interest = Rat(SingleDay.best, Percent * DaysPerYear)

-----------------------------------------------------------------------------
(* Requests and runs side by side *)

\* What run_multi_day_opt(bks, deposit, last) may return from day d on, when
\* nothing else runs.
RECURSIVE RunAloneFrom(_, _, _, _, _)
RunAloneFrom(bks, deposit, d, last, done) ==
    IF d > last THEN { done }
    ELSE UNION { IF NotOptimal(res.status) THEN { done }
                 ELSE RunAloneFrom(bks, new_deposit(deposit, res.daily_interest), d + 1, last,
                                   Append(done, day_record(d, deposit, res))) :
                 res \in solve_single_day(Whole(deposit), bks) }

RunAlone(bks, initial_deposit, last) ==
    RunAloneFrom(bks, Rat(initial_deposit, 1), 1, last, << >>)

\* Every worker that has finished holds what it would hold had it run alone.
AsAlone ==
    \A w \in Workers :
        /\ (workers[w].kind = "request" /\ workers[w].pc = "responded") =>
              workers[w].response = calculate_best(workers[w].request, raw, split_dict).response
        /\ (workers[w].kind = "run" /\ workers[w].pc = "returned") =>
              workers[w].results \in RunAlone(banks, workers[w].total, workers[w].days)

\* C25: no step of a request handler of server.py writes the module-level
\* banks or split_dict, no step of run_multi_day_opt / solve_single_day writes
\* its banks argument, and under every interleaving of requests and runs each
\* one returns what it returns when it runs alone.
C25_Independent ==
    /\ [][raw' = raw /\ split_dict' = split_dict /\ banks' = banks]_vars
    /\ [](prog = "concurrent" => AsAlone)

\* A request answered with a split and a run of two days, both finished, each
\* having made steps while the other was under way.
C25_Witness ==
    /\ prog = "concurrent"
    /\ workers[1].kind = "request"
    /\ workers[1].pc = "responded"
    /\ workers[1].overlap
    /\ workers[1].response.code = 200
    /\ "split_strategy" \in DOMAIN workers[1].response
    /\ workers[2].kind = "run"
    /\ workers[2].pc = "returned"
    /\ workers[2].overlap
    /\ Len(workers[2].results) = 2
    /\ workers[2].results[2].start_deposit # workers[2].results[1].start_deposit

====
